---- MODULE Spec2Model ----
(***************************************************************************)
(* Model of the fight-song-viz page: the shared reactive store (state.js)  *)
(* and the chart views that subscribe to it.                               *)
(*                                                                         *)
(* Part I  (SpecStore): the store as a library.  subscribe / unsubscribe / *)
(*   setState / setMultipleState run as a small-step machine with an       *)
(*   explicit call stack, so that callbacks which throw, unsubscribe or    *)
(*   call setState re-entrantly are interleaved exactly as the             *)
(*   single-threaded JavaScript run would interleave them.                 *)
(* Part II (SpecApp): the views wired to the store, driven by pointer,     *)
(*   click and filter events.                                              *)
(***************************************************************************)
EXTENDS Integers, Sequences, FiniteSets, TLC

VARIABLES
  state,        \* state.js `state`: store key -> current value
  listeners,    \* state.js `listeners`: Map key -> Set(callback), insertion ordered
  stack,        \* JavaScript call stack of the store operation in progress
  handles,      \* unsubscribe closures returned so far: id -> [key, cb, called]
  dead,         \* <<key, cb>> whose unsubscribe ran and that was not subscribed since
  call,         \* summary of the store call made by the outermost caller
  log,          \* callback invocations of that call, kept while no callback re-entered
  last,         \* the latest callback invocation
  uncaught,     \* TRUE iff the last outermost call ended by an exception
  views,        \* per-view fields and element opacities
  tooltip,      \* tooltip.js singleton
  pointer,      \* school element currently under the pointer
  pendingDeselect, \* unresolved import('./state.js') continuations
  dom,          \* page structure the document click handler inspects
  lastEvent     \* the event handled last: [type, view, school]

StoreVars == <<state, listeners, stack, handles, dead, call, log, last, uncaught>>
AppVars   == <<views, tooltip, pointer, pendingDeselect, dom, lastEvent>>
vars      == <<StoreVars, AppVars>>

Null == "null"

(***************************************************************************)
(* Bounds                                                                  *)
(***************************************************************************)
MaxSubs  == 2    \* subscribe calls per behaviour
MaxDepth == 2    \* nested notification rounds
MaxOps   == 1    \* store calls one callback activation may make

(***************************************************************************)
(* Part I: the store                                                       *)
(***************************************************************************)
Keys        == {"selectedSchool", "hoveredSchool", "activeConference", "matrixSort"}
ClientKeys  == {"selectedSchool", "hoveredSchool"}
ClientVals  == {Null, "Purdue"}
Callbacks   == {"cbA", "cbB"}

\* state.js:10-30, the keys the claims are about
InitialState ==
  [k \in Keys |-> CASE k = "selectedSchool"   -> Null
                    [] k = "hoveredSchool"    -> Null
                    [] k = "activeConference" -> "all"
                    [] k = "matrixSort"       -> "conference"]

NoCall == [op |-> "none", key |-> Null, value |-> Null, updates |-> <<>>,
           old |-> InitialState, reentered |-> FALSE,
           threw |-> {}, unsubbed |-> {}, invoked |-> {}, repeat |-> FALSE]

NoInvocation == [cb |-> Null, key |-> Null, value |-> Null, stored |-> Null,
                 wasDead |-> FALSE, snap |-> InitialState]

\* ---- helpers over insertion-ordered sets (JavaScript Set) ----
Range(s) == {s[i] : i \in 1..Len(s)}

RECURSIVE Without(_, _)
Without(s, x) ==
  IF s = <<>> THEN <<>>
  ELSE IF Head(s) = x THEN Without(Tail(s), x)
  ELSE <<Head(s)>> \o Without(Tail(s), x)

\* Set.prototype.add: appended only when absent
SetAdd(s, x) == IF x \in Range(s) THEN s ELSE Append(s, x)

\* Set.prototype.delete
SetDelete(s, x) == Without(s, x)

Subscribers(ls, key) == IF key \in DOMAIN ls THEN ls[key] ELSE <<>>

Top == stack[Len(stack)]
Pop(stk) == SubSeq(stk, 1, Len(stk) - 1)
ReplaceTop(stk, f) == [stk EXCEPT ![Len(stk)] = f]

NotifyDepth(stk) == Cardinality({i \in 1..Len(stk) : stk[i].kind = "notify"})

\* Who may call the store now: the page (empty stack) or the callback that
\* is currently executing.
AtTopLevel == stack = <<>>
InCallback == stack # <<>> /\ Top.kind = "cb" /\ Top.ops > 0
CanCall    == AtTopLevel \/ InCallback

\* stack after the caller has issued one store call
Charged(stk) ==
  IF stk = <<>> THEN stk
  ELSE ReplaceTop(stk, [stk[Len(stk)] EXCEPT !.ops = @ - 1])

\* Set.prototype.forEach visits the live set: an entry deleted before it is
\* reached is skipped.
\* (variant: iteration over a copy of the set taken when the round starts)
PendingSnapshot(stk, key, cb) == stk

PendingAfterDelete(stk, key, cb) ==
  [i \in 1..Len(stk) |->
     IF stk[i].kind = "notify" /\ stk[i].key = key
       THEN [stk[i] EXCEPT !.pending = SetDelete(@, cb)]
       ELSE stk[i]]

RECURSIVE Flatten(_, _)
Flatten(ls, ks) ==
  IF ks = {} THEN <<>>
  ELSE LET k == CHOOSE x \in ks : TRUE
       IN Subscribers(ls, k) \o Flatten(ls, ks \ {k})

\* (variant: the round walks the callbacks of every key)
NotifyEveryKey(ls, key, value) ==
  [kind |-> "notify", key |-> key, value |-> value,
   pending |-> Flatten(ls, DOMAIN ls), cb |-> Null, ops |-> 0, entries |-> <<>>]

\* notify(key, value): the round over listeners.get(key)
NotifyFrame(ls, key, value) ==
  [kind |-> "notify", key |-> key, value |-> value,
   pending |-> Subscribers(ls, key), cb |-> Null, ops |-> 0, entries |-> <<>>]

\* notify() passes the value captured by setState to every callback
PassedValue(frame, st) == frame.value

\* (variant: no try/catch, the exception unwinds every frame up to the page)
NotCaught(stk) == [stack |-> <<>>, uncaught |-> TRUE]

\* the try/catch around each callback: only the throwing callback is left
CaughtInNotify(stk) == [stack |-> Pop(stk), uncaught |-> FALSE]

\* (variant: setState without the equality gate)
SetStateUngated(st, ls, stk, key, value) ==
  [state |-> [st EXCEPT ![key] = value],
   stack |-> Append(stk, NotifyFrame(ls, key, value))]

\* the write and the round of setState(key, value), issued with stack stk
SetStateEffect(st, ls, stk, key, value) ==
  IF st[key] # value
    THEN [state |-> [st EXCEPT ![key] = value],
          stack |-> Append(stk, NotifyFrame(ls, key, value))]
    ELSE [state |-> st, stack |-> stk]

ManyFrame(entries) ==
  [kind |-> "setMany", key |-> Null, value |-> Null,
   pending |-> <<>>, cb |-> Null, ops |-> 0, entries |-> entries]

RECURSIVE WriteAll(_, _)
WriteAll(st, entries) ==
  IF entries = <<>> THEN st
  ELSE WriteAll([st EXCEPT ![entries[1][1]] = entries[1][2]], Tail(entries))

RECURSIVE RoundsFor(_, _, _)
RoundsFor(st, ls, entries) ==
  IF entries = <<>> THEN <<>>
  ELSE RoundsFor(st, ls, Tail(entries)) \o
       (IF st[entries[1][1]] # entries[1][2]
          THEN <<NotifyFrame(ls, entries[1][1], entries[1][2])>> ELSE <<>>)

\* (variant: every entry is written first, the rounds run afterwards)
ManyStepBatched(st, ls, stk, entries) ==
  [state |-> WriteAll(st, entries),
   stack |-> ReplaceTop(stk, ManyFrame(<<>>)) \o RoundsFor(st, ls, entries)]

\* one iteration of Object.entries(updates).forEach: setState(key, value)
ManyStep(st, ls, stk, entries) ==
  SetStateEffect(st, ls, ReplaceTop(stk, ManyFrame(Tail(entries))),
                 entries[1][1], entries[1][2])

\* The page issues a store call.  A setState that repeats the previous
\* outermost setState (same key, same value) continues that call's record,
\* so that the notifications of the pair are counted together.
Repeats(op, key, value) ==
  /\ op = "setState" /\ call.op = "setState" /\ ~call.repeat
  /\ call.key = key /\ call.value = value
  /\ call.old[key] # value

StartCall(op, key, value, updates) ==
  /\ call' = [op |-> op, key |-> key, value |-> value, updates |-> updates,
              old |-> state,
              reentered |-> IF Repeats(op, key, value) THEN call.reentered ELSE FALSE,
              threw |-> {}, unsubbed |-> {},
              invoked |-> IF Repeats(op, key, value) THEN call.invoked ELSE {},
              repeat |-> Repeats(op, key, value)]
  /\ log' = IF Repeats(op, key, value) THEN log ELSE <<>>
  /\ last' = NoInvocation
  /\ uncaught' = FALSE

\* subscribe and unsubscribe by the page end the record of the last call
ForgetCall ==
  /\ call' = [NoCall EXCEPT !.old = state]
  /\ log' = <<>>
  /\ last' = NoInvocation
  /\ uncaught' = FALSE

NoteReentry(extra) ==
  /\ call' = [call EXCEPT !.reentered = TRUE, !.unsubbed = @ \cup extra]
  /\ UNCHANGED <<log, last, uncaught>>

StoreFrame == UNCHANGED AppVars

InitStore ==
  /\ state = InitialState
  /\ listeners = << >>
  /\ stack = <<>>
  /\ handles = << >>
  /\ dead = {}
  /\ call = NoCall
  /\ log = <<>>
  /\ last = NoInvocation
  /\ uncaught = FALSE
  /\ views = Null /\ tooltip = Null /\ pointer = <<Null, Null>>
  /\ pendingDeselect = <<>> /\ dom = Null /\ lastEvent = Null

\* state.js:43-48
subscribe(key, cb) ==
  /\ AtTopLevel
  /\ Len(handles) < MaxSubs
  /\ listeners' = [k \in DOMAIN listeners \cup {key} |->
                     IF k = key THEN SetAdd(Subscribers(listeners, key), cb)
                     ELSE listeners[k]]
  /\ handles' = Append(handles, [key |-> key, cb |-> cb, called |-> FALSE])
  /\ dead' = dead \ {<<key, cb>>}
  /\ ForgetCall
  /\ UNCHANGED stack
  /\ UNCHANGED state
  /\ StoreFrame

\* state.js:50-52, the closure returned by subscribe
unsubscribe(h) ==
  /\ CanCall
  /\ h \in DOMAIN handles
  /\ LET key == handles[h].key
         cb  == handles[h].cb
     IN /\ listeners' = [listeners EXCEPT ![key] = SetDelete(@, cb)]
        /\ handles' = [handles EXCEPT ![h].called = TRUE]
        /\ dead' = dead \cup {<<key, cb>>}
        /\ stack' = PendingAfterDelete(Charged(stack), key, cb)
        /\ IF AtTopLevel THEN ForgetCall
           ELSE NoteReentry(IF cb \in Range(listeners[key]) THEN {<<key, cb>>} ELSE {})
  /\ UNCHANGED state
  /\ StoreFrame

\* state.js:94-102
setState(key, value) ==
  /\ CanCall
  /\ NotifyDepth(stack) < MaxDepth
  /\ LET r == SetStateEffect(state, listeners, Charged(stack), key, value)
     IN /\ state' = r.state
        /\ stack' = r.stack
  /\ IF AtTopLevel THEN StartCall("setState", key, value, <<>>) ELSE NoteReentry({})
  /\ UNCHANGED <<listeners, handles, dead>>
  /\ StoreFrame

\* updates objects the page may pass: two distinct keys, in either order
Updates ==
  {<<e1, e2>> : e1 \in ClientKeys \X ClientVals, e2 \in ClientKeys \X ClientVals}

\* state.js:108-112, the call
setMultipleState(updates) ==
  /\ AtTopLevel
  /\ updates[1][1] # updates[2][1]
  /\ stack' = <<ManyFrame(updates)>>
  /\ StartCall("setMany", Null, Null, updates)
  /\ UNCHANGED <<state, listeners, handles, dead>>
  /\ StoreFrame

\* state.js:109-111, one forEach iteration, or the return after the last
setMultipleStateNext ==
  /\ stack # <<>>
  /\ Top.kind = "setMany"
  /\ IF Top.entries = <<>>
       THEN /\ stack' = Pop(stack)
            /\ UNCHANGED state
       ELSE LET r == ManyStep(state, listeners, stack, Top.entries)
            IN /\ state' = r.state
               /\ stack' = r.stack
  /\ UNCHANGED <<listeners, handles, dead, call, log, last, uncaught>>
  /\ StoreFrame

\* state.js:62-64, forEach reaches the next callback and calls it
notifyNext ==
  /\ stack # <<>>
  /\ Top.kind = "notify"
  /\ Top.pending # <<>>
  /\ LET f  == Top
         cb == Head(f.pending)
         v  == PassedValue(f, state)
     IN /\ stack' = Append(ReplaceTop(stack, [f EXCEPT !.pending = Tail(@)]),
                           [kind |-> "cb", key |-> f.key, value |-> v,
                            pending |-> <<>>, cb |-> cb, ops |-> MaxOps,
                            entries |-> <<>>])
        /\ LET e == [cb |-> cb, key |-> f.key, value |-> v,
                     stored |-> state[f.key],
                     wasDead |-> <<f.key, cb>> \in dead,
                     snap |-> state]
           IN /\ last' = e
              /\ log' = IF call.reentered THEN log ELSE Append(log, e)
        /\ call' = [call EXCEPT !.invoked = @ \cup {cb}]
  /\ UNCHANGED <<state, listeners, handles, dead, uncaught>>
  /\ StoreFrame

\* state.js:60-70, forEach is exhausted and notify (and setState) return
notifyReturn ==
  /\ stack # <<>>
  /\ Top.kind = "notify"
  /\ Top.pending = <<>>
  /\ stack' = Pop(stack)
  /\ UNCHANGED <<state, listeners, handles, dead, call, log, last, uncaught>>
  /\ StoreFrame

\* the running callback returns normally
callbackReturn ==
  /\ stack # <<>>
  /\ Top.kind = "cb"
  /\ stack' = Pop(stack)
  /\ UNCHANGED <<state, listeners, handles, dead, call, log, last, uncaught>>
  /\ StoreFrame

\* state.js:63-67, the running callback throws
callbackThrow ==
  /\ stack # <<>>
  /\ Top.kind = "cb"
  /\ LET r == CaughtInNotify(stack)
     IN /\ stack' = r.stack
        /\ uncaught' = r.uncaught
  /\ call' = [call EXCEPT !.threw = @ \cup {Top.cb}]
  /\ UNCHANGED <<state, listeners, handles, dead, log, last>>
  /\ StoreFrame

NextStore ==
  \/ \E k \in ClientKeys, cb \in Callbacks : subscribe(k, cb)
  \/ \E h \in 1..MaxSubs : unsubscribe(h)
  \/ \E k \in ClientKeys, v \in ClientVals : setState(k, v)
  \/ \E u \in Updates : setMultipleState(u)
  \/ setMultipleStateNext
  \/ notifyNext
  \/ notifyReturn
  \/ callbackReturn
  \/ callbackThrow

SpecStore == InitStore /\ [][NextStore]_vars

(***************************************************************************)
(* Properties of the store                                                 *)
(***************************************************************************)
Count(lg, cb) == Cardinality({i \in 1..Len(lg) : lg[i].cb = cb})

\* every current subscriber of key once, nobody else, all with key and value
NotifiedOnce(lg, key, value) ==
  /\ \A cb \in Callbacks :
        Count(lg, cb) = IF cb \in Range(Subscribers(listeners, key)) THEN 1 ELSE 0
  /\ \A i \in 1..Len(lg) : lg[i].key = key /\ lg[i].value = value

\* an outermost setState that has returned and whose callbacks made no store call
SetReturned ==
  /\ stack = <<>>
  /\ call.op = "setState"
  /\ ~call.reentered

OtherKey(key) == CHOOSE k \in ClientKeys : k # key

\* C1: a setState(K, V) with V different from the stored value stores V and
\* calls every callback subscribed to K exactly once with V, and calls no
\* callback that is subscribed only to other keys.
C1_SetNotifiesSubscribers ==
  (SetReturned /\ ~call.repeat /\ call.old[call.key] # call.value) =>
     /\ state = [call.old EXCEPT ![call.key] = call.value]
     /\ NotifiedOnce(log, call.key, call.value)

C1_Witness ==
  /\ SetReturned /\ ~call.repeat /\ call.old[call.key] # call.value
  /\ Len(log) >= 1
  /\ Range(Subscribers(listeners, OtherKey(call.key)))
        \ Range(Subscribers(listeners, call.key)) # {}

\* C2: a setState(K, V) with V equal to the stored value changes nothing and
\* calls nobody; so setState(K, V1) issued twice in a row from a state where
\* K held another value notifies each subscriber of K exactly once in total.
C2_EqualSetIsNoOp ==
  (SetReturned /\ call.old[call.key] = call.value) =>
     /\ state = call.old
     /\ ~call.repeat => log = <<>>
     /\ call.repeat => NotifiedOnce(log, call.key, call.value)

C2_Witness ==
  /\ SetReturned /\ call.repeat /\ call.old[call.key] = call.value
  /\ Len(log) >= 1

\* C3: every callback invocation for key K receives the value stored for K
\* at the moment of the invocation, also after an earlier subscriber of the
\* same round called setState(K, V') re-entrantly.
C3_ValueIsCurrent ==
  last.cb # Null => last.value = last.stored

\* C4: once the unsubscribe function of subscribe(K, cb) has run, cb is not
\* invoked for K again (until it is subscribed anew), also when the
\* unsubscribe ran inside a round for K that had not reached cb yet.
C4_NoCallAfterUnsubscribe ==
  last.cb # Null => ~last.wasDead

C4_Witness ==
  /\ stack = <<>>
  /\ call.op = "setState"
  /\ call.invoked # {}
  /\ \E cb \in Callbacks :
        /\ <<call.key, cb>> \in call.unsubbed
        /\ cb \notin call.invoked

\* C5: every subscription whose own unsubscribe function was never called
\* is still registered for its key, also when another subscribe call for
\* the same key passed the same callback and was unsubscribed.
C5_OtherSubscriptionsStay ==
  \A h \in DOMAIN handles :
    ~handles[h].called =>
       handles[h].cb \in Range(Subscribers(listeners, handles[h].key))

\* C6: a callback that throws during the round of setState(K, V) is caught
\* in the store: the exception never reaches the caller, every subscriber
\* of K is still called with V, and K keeps the value V.
C6_ThrowIsContained ==
  /\ ~uncaught
  /\ (SetReturned /\ ~call.repeat /\ call.threw # {}) =>
        /\ state[call.key] = call.value
        /\ NotifiedOnce(log, call.key, call.value)

C6_Witness ==
  /\ SetReturned /\ ~call.repeat
  /\ Len(log) = 2
  /\ log[1].cb \in call.threw
  /\ state[call.key] = call.value

\* position of key in the updates of the current setMultipleState
EntryOf(key) == CHOOSE j \in 1..Len(call.updates) : call.updates[j][1] = key

RECURSIVE ExpectedRounds(_, _)
ExpectedRounds(old, entries) ==
  IF entries = <<>> THEN <<>>
  ELSE (IF old[entries[1][1]] # entries[1][2]
          THEN [i \in 1..Len(Subscribers(listeners, entries[1][1])) |->
                  <<Subscribers(listeners, entries[1][1])[i], entries[1][1], entries[1][2]>>]
          ELSE <<>>)
       \o ExpectedRounds(old, Tail(entries))

\* C7: setMultipleState(updates) is setState entry by entry in the order of
\* the entries: a callback called for one entry sees every earlier entry
\* written and every later entry still at its old value, and the calls
\* made are those of the successive setState calls.
C7_SetManyIsSequential ==
  (call.op = "setMany" /\ ~call.reentered) =>
     /\ \A i \in 1..Len(log) :
          LET j == EntryOf(log[i].key)
          IN /\ log[i].value = call.updates[j][2]
             /\ \A m \in 1..j : log[i].snap[call.updates[m][1]] = call.updates[m][2]
             /\ \A m \in (j+1)..Len(call.updates) :
                   log[i].snap[call.updates[m][1]] = call.old[call.updates[m][1]]
     /\ stack = <<>> =>
          /\ state = WriteAll(call.old, call.updates)
          /\ [i \in 1..Len(log) |-> <<log[i].cb, log[i].key, log[i].value>>]
               = ExpectedRounds(call.old, call.updates)

C7_Witness ==
  /\ stack = <<>>
  /\ call.op = "setMany" /\ ~call.reentered
  /\ Len(log) = 2
  /\ log[1].key = call.updates[1][1]
  /\ log[2].key = call.updates[2][1]
  /\ log[1].snap[call.updates[2][1]] # state[call.updates[2][1]]


(***************************************************************************)
(* Part II: the views                                                      *)
(*                                                                         *)
(* Opacities are percentages (0.85 is 85).  An element's opacity is the    *)
(* value its d3 transitions settle at; a pointer, click or filter event is *)
(* handled after the transitions of the previous event have ended.         *)
(***************************************************************************)
MaxPending == 1   \* unresolved deselect continuations at one time

\* data/schools.json as loaded by main.js loadData: a small data set with
\* the featured school, a second school of its conference and a school of
\* another conference
schools ==
  [s \in {"Purdue", "Ohio State", "Alabama"} |->
     CASE s = "Purdue"     -> [conference |-> "Big Ten", bpm |-> 150,
                               sec_duration |-> 60, trope_count |-> 4]
       [] s = "Ohio State" -> [conference |-> "Big Ten", bpm |-> 140,
                               sec_duration |-> 70, trope_count |-> 5]
       [] s = "Alabama"    -> [conference |-> "SEC", bpm |-> 70,
                               sec_duration |-> 130, trope_count |-> 0]]
SchoolNames == DOMAIN schools

\* utils.js isPurdue
isPurdue(s) == s = "Purdue"

\* the conferences of the radar and rose charts
conferences == {"ACC", "Big 12", "Big Ten", "Pac-12", "SEC", "Independent"}
\* values the conference <select> and the radar charts can set
FilterValues == {"all", "Big Ten", "SEC", "Pac-12"}

D3Views  == {"map", "scatter", "matrix", "network", "parallel", "clock"}
AllViews == {"galaxy"} \cup D3Views

\* JavaScript truthiness of a store value that is a string, an object or null
Truthy(v) == v \notin {Null, ""}
\* getState('activeConference') || 'all'
ActiveOrAll(st) == IF Truthy(st.activeConference) THEN st.activeConference ELSE "all"
\* conference === 'all' || d.conference === conference
Matches(conf, s) == conf = "all" \/ schools[s].conference = conf

\* network.js calculateSimilarity on two school records, times 2100
\* (= 3000 * 0.7) to stay in integers
calculateSimilarityOfRivals(s1, s2) ==
  IF s1.conference = s2.conference THEN 0 ELSE 2100
calculateSimilarity(s1, s2) ==
  LET Abs(x)  == IF x < 0 THEN 0 - x ELSE x
      Min(a, b) == IF a < b THEN a ELSE b
      bpmDiff      == Abs(s1.bpm - s2.bpm)
      durationDiff == Abs(s1.sec_duration - s2.sec_duration)
      tropeDiff    == Abs(s1.trope_count - s2.trope_count)
      bpmSim      == 300 - Min(3 * bpmDiff, 300)
      durationSim == 300 - Min(5 * durationDiff, 300)
      tropeSim    == 300 - Min(30 * tropeDiff, 300)
      confSim     == IF s1.conference = s2.conference THEN 900 ELSE 0
  IN  3 * bpmSim + 2 * durationSim + 2 * tropeSim + confSim
\* similarityThreshold 0.7 on the same scale: 0.7 * 2100
similarityThreshold == 1470
\* network.js prepareData: the links of the page's data set
links == {l \in SchoolNames \X SchoolNames :
            /\ l[1] # l[2]
            /\ calculateSimilarity(schools[l[1]], schools[l[2]]) > similarityThreshold}

(***************************************************************************)
(* d3 transitions.  A handler schedules transitions on a selection; a      *)
(* transition scheduled later on an element interrupts the earlier one on  *)
(* that element, so only the last one scheduled on an element runs.  Keep  *)
(* is the target of a transition that does not tween the opacity.          *)
(***************************************************************************)
Keep == 0 - 1
Transition(sel, target) == [sel |-> sel, target |-> target]
Schedule(vs, view, sel, target) ==
  [vs EXCEPT ![view].tr = Append(@, Transition(sel, target))]
Settled(opacity, trs) ==
  [s \in SchoolNames |->
     LET hit == {i \in 1..Len(trs) : s \in trs[i].sel}
     IN  IF hit = {} THEN opacity[s]
         ELSE LET i == CHOOSE i \in hit : \A j \in hit : j <= i
              IN  IF trs[i].target[s] = Keep THEN opacity[s] ELSE trs[i].target[s]]
Settle(vs) ==
  [v \in DOMAIN vs |->
     IF v \in D3Views
     THEN [vs[v] EXCEPT !.opacity = Settled(vs[v].opacity, vs[v].tr), !.tr = <<>>]
     ELSE vs[v]]

(***************************************************************************)
(* The views.  vs is the record of all views; each operator returns the    *)
(* record after the method has run.                                        *)
(***************************************************************************)
\* ---- USAMap (map.js), g.school markers
USAMap_filterByConference(vs, conference) ==
  LET op(s) == IF Matches(conference, s) THEN 100 ELSE 15
  IN  Schedule(vs, "map", SchoolNames, [x \in SchoolNames |-> op(x)])
USAMap_highlightSchool(vs, school) ==
  LET op(s) == 30
  IN  Schedule(vs, "map", SchoolNames \ {school}, [x \in SchoolNames |-> op(x)])
USAMap_unhighlightSchool(vs, school) ==
  LET op(s) == 100
  IN  Schedule(vs, "map", SchoolNames, [x \in SchoolNames |-> op(x)])
USAMap_externalHighlight(vs, school) ==
  LET op(s) == IF s = school THEN 100 ELSE 30
  IN  Schedule(vs, "map", SchoolNames, [x \in SchoolNames |-> op(x)])
USAMap_externalUnhighlight(vs, st) ==
  USAMap_filterByConference(vs, ActiveOrAll(st))
USAMap_onHoveredSchool(vs, st, school) ==
  IF school # Null /\ school # vs.map.hoveredSchool
  THEN USAMap_externalHighlight(vs, school)
  ELSE IF school = Null /\ vs.map.hoveredSchool # Null
       THEN USAMap_externalUnhighlight(vs, st)
       ELSE vs

\* ---- ScatterPlot, circle.point elements
ScatterPlot_filterByConference(vs, conference) ==
  LET op(s) == IF Matches(conference, s) THEN 85 ELSE 15
  IN  Schedule(vs, "scatter", SchoolNames, [x \in SchoolNames |-> op(x)])
\* the second transition, on the point itself, tweens r and stroke only
ScatterPlot_highlightPoint(vs, school) ==
  LET op(s)   == IF s = school THEN 100 ELSE 20
      grow(s) == Keep
  IN  Schedule(Schedule(vs, "scatter", SchoolNames, [x \in SchoolNames |-> op(x)]),
               "scatter", {school}, [x \in SchoolNames |-> grow(x)])
ScatterPlot_unhighlightPoint(vs, st) ==
  LET op(s) == IF Matches(ActiveOrAll(st), s) THEN 85 ELSE 15
  IN  Schedule(vs, "scatter", SchoolNames, [x \in SchoolNames |-> op(x)])
ScatterPlot_externalHighlight(vs, school) == ScatterPlot_highlightPoint(vs, school)
\* the second transition, on every point, tweens r and stroke only
ScatterPlot_externalUnhighlight(vs, st) ==
  LET shrink(s) == Keep
  IN  Schedule(ScatterPlot_filterByConference(vs, ActiveOrAll(st)),
               "scatter", SchoolNames, [x \in SchoolNames |-> shrink(x)])
ScatterPlot_onHoveredSchool(vs, st, school) ==
  IF school # Null /\ school # vs.scatter.hoveredSchool
  THEN ScatterPlot_externalHighlight(vs, school)
  ELSE IF school = Null /\ vs.scatter.hoveredSchool # Null
       THEN ScatterPlot_externalUnhighlight(vs, st)
       ELSE vs

\* ---- TropeMatrix (matrix.js), g.column elements
TropeMatrix_filterByConference(vs, conference) ==
  LET op(s) == IF Matches(conference, s) THEN 100 ELSE 20
  IN  Schedule(vs, "matrix", SchoolNames, [x \in SchoolNames |-> op(x)])
TropeMatrix_externalHighlight(vs, school) ==
  LET op(s) == IF s = school THEN 100 ELSE 30
  IN  Schedule(vs, "matrix", SchoolNames, [x \in SchoolNames |-> op(x)])
TropeMatrix_externalUnhighlight(vs, st) ==
  TropeMatrix_filterByConference(vs, ActiveOrAll(st))
TropeMatrix_onHoveredSchool(vs, st, school) ==
  IF school # Null /\ school # vs.matrix.hoveredSchool
  THEN TropeMatrix_externalHighlight(vs, school)
  ELSE IF school = Null /\ vs.matrix.hoveredSchool = Null
       THEN TropeMatrix_externalUnhighlight(vs, st)
       ELSE vs

\* ---- NetworkGraph (network.js), g.node elements
NetworkGraph_filterByConference(vs, conference) ==
  LET op(s) == IF Matches(conference, s) THEN 90 ELSE 20
  IN  Schedule(vs, "network", SchoolNames, [x \in SchoolNames |-> op(x)])
NetworkGraph_highlightNode(vs, node) ==
  LET connectedNodes == {node} \cup {s \in SchoolNames : <<s, node>> \in links}
      op(s) == IF s \in connectedNodes THEN 100 ELSE 20
  IN  Schedule(vs, "network", SchoolNames, [x \in SchoolNames |-> op(x)])
NetworkGraph_unhighlightNode(vs, st) ==
  LET op(s) == IF Matches(ActiveOrAll(st), s) THEN 90 ELSE 20
  IN  Schedule(vs, "network", SchoolNames, [x \in SchoolNames |-> op(x)])
NetworkGraph_onHoveredSchool(vs, st, school) ==
  IF school # Null THEN NetworkGraph_highlightNode(vs, school) ELSE vs

\* ---- ParallelCoordinates (network.js), path.line elements
ParallelCoordinates_filterByConference(vs, conference) ==
  LET op(s) == IF isPurdue(s) THEN 80
               ELSE IF Matches(conference, s) THEN 30 ELSE 10
  IN  Schedule(vs, "parallel", SchoolNames, [x \in SchoolNames |-> op(x)])
ParallelCoordinates_highlightLine(vs, school) ==
  LET op(s) == IF s = school THEN 80 ELSE IF isPurdue(s) THEN 30 ELSE 10
  IN  Schedule(vs, "parallel", SchoolNames, [x \in SchoolNames |-> op(x)])
ParallelCoordinates_unhighlightLine(vs, st) ==
  ParallelCoordinates_filterByConference(vs, ActiveOrAll(st))
ParallelCoordinates_onHoveredSchool(vs, st, school) ==
  IF school # Null THEN ParallelCoordinates_highlightLine(vs, school) ELSE vs

\* ---- FightSongClock, path.arc elements (stroke-opacity)
FightSongClock_filterByConference(vs, conference) ==
  LET op(s) == IF isPurdue(s) THEN 100
               ELSE IF Matches(conference, s) THEN 75 ELSE 15
  IN  Schedule(vs, "clock", SchoolNames, [x \in SchoolNames |-> op(x)])
FightSongClock_highlightArc(vs, school) ==
  LET op(s) == IF s = school THEN 100 ELSE IF isPurdue(s) THEN 50 ELSE 15
  IN  Schedule(vs, "clock", SchoolNames, [x \in SchoolNames |-> op(x)])
FightSongClock_unhighlightArc(vs, st) ==
  FightSongClock_filterByConference(vs, ActiveOrAll(st))
FightSongClock_onHoveredSchool(vs, st, school) ==
  IF school # Null THEN FightSongClock_highlightArc(vs, school) ELSE vs

\* ---- EnergyGalaxy, canvas markers: drawMarkers / drawPurdueSpotlight
GalaxyAlpha(g, s) ==
  LET activeConf == IF Truthy(g.activeConference) THEN g.activeConference ELSE "all"
      isActive   == Matches(activeConf, s)
      isHovered  == g.hoveredMarker = s
  IN  IF isPurdue(s) THEN 100
      ELSE IF isActive THEN (IF isHovered THEN 100 ELSE 85) ELSE 15
EnergyGalaxy_onHoveredSchool(vs, st, school) ==
  [vs EXCEPT !.galaxy.hoveredMarker = school]

\* ---- school card (main.js setupSchoolCardSubscription)
defaultSchool == "Purdue"
Card_onHoveredSchool(vs, st, school) ==
  [vs EXCEPT !.card.currentDisplayedSchool =
     IF school # Null THEN school
     ELSE IF vs.card.selectedSchool = Null THEN defaultSchool
     ELSE vs.card.selectedSchool]
Card_onSelectedSchool(vs, st, school) ==
  [vs EXCEPT !.card.selectedSchool = school,
             !.card.currentDisplayedSchool =
                IF school # Null THEN school
                ELSE IF vs.card.currentDisplayedSchool # Null THEN defaultSchool
                ELSE vs.card.currentDisplayedSchool]

\* ---- RadarChart: highlightRadar / unhighlightRadar on the wrappers
RadarChart_onActiveConference(vs, st, conference) ==
  [vs EXCEPT !.radar.highlighted = IF conference = "all" THEN Null ELSE conference]

(***************************************************************************)
(* The store as the page uses it.  A world w is [state, views, tooltip].   *)
(* The subscribers the page registers neither call the store, throw nor    *)
(* unsubscribe, so a notification round runs them in registration order    *)
(* to the end.                                                             *)
(***************************************************************************)
\* registration order: initModules (galaxy, map, radar, scatter, matrix,
\* network, parallel, clock), then populateContent (school card)
AppListeners ==
  [k \in {"hoveredSchool", "activeConference", "selectedSchool"} |->
     CASE k = "hoveredSchool" ->
            <<"galaxy", "map", "scatter", "matrix", "network", "parallel", "clock", "card">>
       [] k = "activeConference" ->
            <<"galaxy", "map", "radar", "scatter", "matrix", "network", "parallel", "clock">>
       [] k = "selectedSchool" -> <<"map", "card">>]

Subscriber(name, key, vs, st, value) ==
  CASE key = "hoveredSchool" /\ name = "galaxy"   -> EnergyGalaxy_onHoveredSchool(vs, st, value)
    [] key = "hoveredSchool" /\ name = "map"      -> USAMap_onHoveredSchool(vs, st, value)
    [] key = "hoveredSchool" /\ name = "scatter"  -> ScatterPlot_onHoveredSchool(vs, st, value)
    [] key = "hoveredSchool" /\ name = "matrix"   -> TropeMatrix_onHoveredSchool(vs, st, value)
    [] key = "hoveredSchool" /\ name = "network"  -> NetworkGraph_onHoveredSchool(vs, st, value)
    [] key = "hoveredSchool" /\ name = "parallel" -> ParallelCoordinates_onHoveredSchool(vs, st, value)
    [] key = "hoveredSchool" /\ name = "clock"    -> FightSongClock_onHoveredSchool(vs, st, value)
    [] key = "hoveredSchool" /\ name = "card"     -> Card_onHoveredSchool(vs, st, value)
    [] key = "activeConference" /\ name = "galaxy"   -> [vs EXCEPT !.galaxy.activeConference = value]
    [] key = "activeConference" /\ name = "map"      -> USAMap_filterByConference(vs, value)
    [] key = "activeConference" /\ name = "radar"    -> RadarChart_onActiveConference(vs, st, value)
    [] key = "activeConference" /\ name = "scatter"  -> ScatterPlot_filterByConference(vs, value)
    [] key = "activeConference" /\ name = "matrix"   -> TropeMatrix_filterByConference(vs, value)
    [] key = "activeConference" /\ name = "network"  -> NetworkGraph_filterByConference(vs, value)
    [] key = "activeConference" /\ name = "parallel" -> ParallelCoordinates_filterByConference(vs, value)
    [] key = "activeConference" /\ name = "clock"    -> FightSongClock_filterByConference(vs, value)
    [] key = "selectedSchool" /\ name = "map"  -> [vs EXCEPT !.map.selectedSchool = value]
    [] key = "selectedSchool" /\ name = "card" -> Card_onSelectedSchool(vs, st, value)

RECURSIVE NotifyViews(_, _, _, _, _)
NotifyViews(vs, st, key, value, subs) ==
  IF subs = <<>> THEN vs
  ELSE NotifyViews(Subscriber(Head(subs), key, vs, st, value), st, key, value, Tail(subs))

\* setState: gate, write, notify
AppSetState(w, key, value) ==
  IF w.state[key] # value
  THEN LET st == [w.state EXCEPT ![key] = value]
       IN  [w EXCEPT !.state = st,
                     !.views = NotifyViews(w.views, st, key, value, Subscribers(listeners, key))]
  ELSE w
selectSchool(w, school)            == AppSetState(w, "selectedSchool", school)
hoverSchool(w, school)             == AppSetState(w, "hoveredSchool", school)
setConferenceFilter(w, conference) == AppSetState(w, "activeConference", conference)

\* tooltip.js
Tooltip_show(w, school) ==
  IF school = Null THEN w
  ELSE [w EXCEPT !.tooltip = [isVisible |-> TRUE, currentSchool |-> school]]
Tooltip_hide(w) == [w EXCEPT !.tooltip = [isVisible |-> FALSE, currentSchool |-> Null]]

(***************************************************************************)
(* Event handlers of the views                                             *)
(***************************************************************************)
handleMouseEnter(view, w, school) ==
  CASE view = "map" ->
         LET w1 == hoverSchool([w EXCEPT !.views.map.hoveredSchool = school], school)
         IN  Tooltip_show([w1 EXCEPT !.views = USAMap_highlightSchool(@, school)], school)
    [] view = "scatter" ->
         LET w1 == hoverSchool([w EXCEPT !.views.scatter.hoveredSchool = school], school)
         IN  Tooltip_show([w1 EXCEPT !.views = ScatterPlot_highlightPoint(@, school)], school)
    [] view = "matrix" ->
         LET w1 == hoverSchool([w EXCEPT !.views.matrix.hoveredSchool = school], school)
             op(s) == 30
         IN  Tooltip_show([w1 EXCEPT !.views =
                             Schedule(@, "matrix", SchoolNames \ {school}, [x \in SchoolNames |-> op(x)])],
                          school)
    [] view = "network" ->
         LET w1 == hoverSchool(w, school)
         IN  Tooltip_show([w1 EXCEPT !.views = NetworkGraph_highlightNode(@, school)], school)
    [] view = "parallel" ->
         LET w1 == hoverSchool(w, school)
         IN  Tooltip_show([w1 EXCEPT !.views = ParallelCoordinates_highlightLine(@, school)], school)
    [] view = "clock" ->
         LET w1 == hoverSchool(w, school)
         IN  Tooltip_show([w1 EXCEPT !.views = FightSongClock_highlightArc(@, school)], school)

handleMouseLeave(view, w, school) ==
  CASE view = "map" ->
         LET w1 == hoverSchool([w EXCEPT !.views.map.hoveredSchool = Null], Null)
         IN  Tooltip_hide([w1 EXCEPT !.views = USAMap_unhighlightSchool(@, school)])
    [] view = "scatter" ->
         LET w1 == hoverSchool([w EXCEPT !.views.scatter.hoveredSchool = Null], Null)
         IN  Tooltip_hide([w1 EXCEPT !.views = ScatterPlot_unhighlightPoint(@, w1.state)])
    [] view = "matrix" ->
         LET w1 == hoverSchool([w EXCEPT !.views.matrix.hoveredSchool = Null], Null)
             op(s) == 100
         IN  Tooltip_hide([w1 EXCEPT !.views =
                             Schedule(@, "matrix", SchoolNames, [x \in SchoolNames |-> op(x)])])
    [] view = "network" ->
         LET w1 == hoverSchool(w, Null)
         IN  Tooltip_hide([w1 EXCEPT !.views = NetworkGraph_unhighlightNode(@, w1.state)])
    [] view = "parallel" ->
         LET w1 == hoverSchool(w, Null)
         IN  Tooltip_hide([w1 EXCEPT !.views = ParallelCoordinates_unhighlightLine(@, w1.state)])
    [] view = "clock" ->
         LET w1 == hoverSchool(w, Null)
         IN  Tooltip_hide([w1 EXCEPT !.views = FightSongClock_unhighlightArc(@, w1.state)])

\* handleClick of the d3 views
handleClick(view, w, school) ==
  IF view = "map"
  THEN selectSchool([w EXCEPT !.views.map.selectedSchool = school], school)
  ELSE selectSchool(w, school)

\* EnergyGalaxy.handleHover; found is the marker hit by the pointer, or Null
EnergyGalaxy_handleHover(w, found) ==
  IF found # Null
  THEN IF w.views.galaxy.hoveredMarker # found
       THEN Tooltip_show(hoverSchool([w EXCEPT !.views.galaxy.hoveredMarker = found], found),
                         found)
       ELSE w
  ELSE IF w.views.galaxy.hoveredMarker # Null
       THEN Tooltip_hide(hoverSchool([w EXCEPT !.views.galaxy.hoveredMarker = Null], Null))
       ELSE w
\* the canvas mouseleave listener
EnergyGalaxy_mouseleave(w) ==
  hoverSchool(Tooltip_hide([w EXCEPT !.views.galaxy.hoveredMarker = Null]), Null)
\* EnergyGalaxy.handleClick
EnergyGalaxy_handleClick(w, found) ==
  IF found # Null
  THEN selectSchool([w EXCEPT !.views.galaxy.selectedMarker = found], found)
  ELSE w

(***************************************************************************)
(* The document click listener (main.js setupControls).  A click target is *)
(* described by the three closest() tests the listener makes.              *)
(***************************************************************************)
Target(glassPanel, galaxyCanvas, inTooltip) ==
  [glassPanel |-> glassPanel, galaxyCanvas |-> galaxyCanvas, tooltip |-> inTooltip]
\* a school element, or the background, of a view
ViewTarget(view) ==
  IF view = "galaxy" THEN Target(FALSE, TRUE, FALSE)
  ELSE Target(dom.chartsInGlassPanel, FALSE, FALSE)
\* TRUE iff the click on a school element of the view reaches the document:
\* the d3 views call event.stopPropagation(), the galaxy canvas does not
PropagatesAlways(view) == TRUE
Propagates(view) == view = "galaxy"

isOutside(target) == ~target.glassPanel /\ ~target.galaxyCanvas /\ ~target.tooltip
\* the pending import('./state.js') continuations after the listener ran
documentClick(w, pending, target, origin) ==
  IF isOutside(target) /\ Truthy(w.state.selectedSchool)
  THEN Append(pending, origin)
  ELSE pending

(***************************************************************************)
(* The page after main.js init() has returned and every view has drawn     *)
(***************************************************************************)
NoPointer == <<Null, Null>>
Event(type, view, school) == [type |-> type, view |-> view, school |-> school]

InitialViews ==
  [galaxy   |-> [hoveredMarker |-> Null, selectedMarker |-> Null, activeConference |-> Null],
   map      |-> [hoveredSchool |-> Null, selectedSchool |-> Null,
                 opacity |-> [s \in SchoolNames |-> 100], tr |-> <<>>],
   radar    |-> [highlighted |-> Null],
   scatter  |-> [hoveredSchool |-> Null,
                 opacity |-> [s \in SchoolNames |-> 85], tr |-> <<>>],
   matrix   |-> [hoveredSchool |-> Null,
                 opacity |-> [s \in SchoolNames |-> 100], tr |-> <<>>],
   network  |-> [opacity |-> [s \in SchoolNames |-> 100], tr |-> <<>>],
   parallel |-> [opacity |-> [s \in SchoolNames |-> IF isPurdue(s) THEN 80 ELSE 30],
                 tr |-> <<>>],
   clock    |-> [opacity |-> [s \in SchoolNames |-> IF isPurdue(s) THEN 100 ELSE 60],
                 tr |-> <<>>],
   card     |-> [selectedSchool |-> Null, currentDisplayedSchool |-> defaultSchool]]

\* index.html is not part of the sources: whether the chart containers sit
\* inside a .glass-panel element is left open
InitApp ==
  /\ state = InitialState
  /\ listeners = AppListeners
  /\ stack = <<>>
  /\ handles = << >>
  /\ dead = {}
  /\ call = NoCall
  /\ log = <<>>
  /\ last = NoInvocation
  /\ uncaught = FALSE
  /\ views = InitialViews
  /\ tooltip = [isVisible |-> FALSE, currentSchool |-> Null]
  /\ pointer = NoPointer
  /\ pendingDeselect = <<>>
  /\ dom \in [chartsInGlassPanel : BOOLEAN]
  /\ lastEvent = Event("load", Null, Null)

World == [state |-> state, views |-> views, tooltip |-> tooltip]
Commit(w) ==
  /\ state' = w.state
  /\ views' = Settle(w.views)
  /\ tooltip' = w.tooltip
AppFrame == UNCHANGED <<listeners, stack, handles, dead, call, log, last, uncaught, dom>>

\* mouseenter on the school element of a d3 view
MouseEnter(view, school) ==
  /\ pointer = NoPointer
  /\ Commit(handleMouseEnter(view, World, school))
  /\ pointer' = <<view, school>>
  /\ lastEvent' = Event("mouseenter", view, school)
  /\ UNCHANGED pendingDeselect
  /\ AppFrame

\* mouseleave from the school element of a d3 view
MouseLeave(view, school) ==
  /\ pointer = <<view, school>>
  /\ Commit(handleMouseLeave(view, World, school))
  /\ pointer' = NoPointer
  /\ lastEvent' = Event("mouseleave", view, school)
  /\ UNCHANGED pendingDeselect
  /\ AppFrame

\* mousemove on the galaxy canvas, over the marker found or over none
GalaxyMouseMove(found) ==
  /\ pointer[1] \in {Null, "galaxy"}
  /\ Commit(EnergyGalaxy_handleHover(World, found))
  /\ pointer' = <<"galaxy", found>>
  /\ lastEvent' = IF found # Null THEN Event("mouseenter", "galaxy", found)
                  ELSE IF views.galaxy.hoveredMarker # Null
                       THEN Event("mouseleave", "galaxy", views.galaxy.hoveredMarker)
                       ELSE Event("mousemove", Null, Null)
  /\ UNCHANGED pendingDeselect
  /\ AppFrame

\* mouseleave from the galaxy canvas
GalaxyMouseLeave ==
  /\ pointer[1] = "galaxy"
  /\ Commit(EnergyGalaxy_mouseleave(World))
  /\ pointer' = NoPointer
  /\ lastEvent' = IF views.galaxy.hoveredMarker # Null
                  THEN Event("mouseleave", "galaxy", views.galaxy.hoveredMarker)
                  ELSE Event("mousemove", Null, Null)
  /\ UNCHANGED pendingDeselect
  /\ AppFrame

\* click on the school element under the pointer: the view's handler, then
\* the document listener if the event reaches it
Click(view, school) ==
  /\ pointer = <<view, school>>
  /\ Len(pendingDeselect) < MaxPending
  /\ LET w == IF view = "galaxy" THEN EnergyGalaxy_handleClick(World, school)
              ELSE handleClick(view, World, school)
     IN  /\ Commit(w)
         /\ pendingDeselect' =
              IF Propagates(view)
              THEN documentClick(w, pendingDeselect, ViewTarget(view),
                                 Event("click", view, school))
              ELSE pendingDeselect
  /\ lastEvent' = Event("click", view, school)
  /\ UNCHANGED pointer
  /\ AppFrame

\* click on the background of a view, where no school element is
ClickBackground(view) ==
  /\ pointer[2] = Null
  /\ pointer[1] \in {Null, view}
  /\ Len(pendingDeselect) < MaxPending
  /\ Commit(World)
  /\ pendingDeselect' = documentClick(World, pendingDeselect, ViewTarget(view),
                                      Event("click", Null, Null))
  /\ lastEvent' = Event("click", Null, Null)
  /\ UNCHANGED pointer
  /\ AppFrame

\* click anywhere else on the page
ClickElsewhere(target) ==
  /\ pointer = NoPointer
  /\ Len(pendingDeselect) < MaxPending
  /\ Commit(World)
  /\ pendingDeselect' = documentClick(World, pendingDeselect, target,
                                      Event("click", Null, Null))
  /\ lastEvent' = Event("click", Null, Null)
  /\ UNCHANGED pointer
  /\ AppFrame

\* change of the conference <select>
ChangeConferenceFilter(value) ==
  /\ value # state.activeConference
  /\ Commit(setConferenceFilter(World, value))
  /\ lastEvent' = Event("filter", Null, Null)
  /\ UNCHANGED <<pointer, pendingDeselect>>
  /\ AppFrame

\* click on the radar chart of a conference: RadarChart.handleClick, then
\* the document listener
RadarClick(conf) ==
  /\ pointer = NoPointer
  /\ Len(pendingDeselect) < MaxPending
  /\ LET w == setConferenceFilter(World, conf)
     IN  /\ Commit(w)
         /\ pendingDeselect' = documentClick(w, pendingDeselect, ViewTarget("radar"),
                                             Event("click", Null, Null))
  /\ lastEvent' = IF conf # state.activeConference THEN Event("filter", Null, Null)
                  ELSE Event("click", Null, Null)
  /\ UNCHANGED pointer
  /\ AppFrame

\* import('./state.js').then(state => state.selectSchool(null)) resolves
DeselectContinuation ==
  /\ pendingDeselect # <<>>
  /\ Commit(selectSchool(World, Null))
  /\ pendingDeselect' = Tail(pendingDeselect)
  /\ lastEvent' = Event("continuation", Head(pendingDeselect).view,
                        Head(pendingDeselect).school)
  /\ UNCHANGED pointer
  /\ AppFrame

NextApp ==
  \/ \E view \in D3Views, school \in SchoolNames : MouseEnter(view, school)
  \/ \E view \in D3Views, school \in SchoolNames : MouseLeave(view, school)
  \/ \E found \in SchoolNames \cup {Null} : GalaxyMouseMove(found)
  \/ GalaxyMouseLeave
  \/ \E view \in AllViews, school \in SchoolNames : Click(view, school)
  \/ \E view \in AllViews : ClickBackground(view)
  \/ \E target \in [glassPanel : BOOLEAN, galaxyCanvas : {FALSE}, tooltip : BOOLEAN] :
       ClickElsewhere(target)
  \/ \E value \in FilterValues : ChangeConferenceFilter(value)
  \/ \E conf \in conferences \cap FilterValues : RadarClick(conf)
  \/ DeselectContinuation

SpecApp == InitApp /\ [][NextApp]_vars

(***************************************************************************)
(* Properties of the views                                                 *)
(***************************************************************************)
\* opacity of the element bound to school s in a view
ElementOpacity(view, s) ==
  IF view = "galaxy" THEN GalaxyAlpha(views.galaxy, s) ELSE views[view].opacity[s]
\* the opacity a view's filter gives a matching and a non-matching element
FullOpacity(view) ==
  CASE view = "galaxy" -> 85 [] view = "map" -> 100 [] view = "scatter" -> 85
    [] view = "matrix" -> 100 [] view = "network" -> 90
    [] view = "parallel" -> 30 [] view = "clock" -> 75
DimmedOpacity(view) ==
  CASE view = "galaxy" -> 15 [] view = "map" -> 15 [] view = "scatter" -> 15
    [] view = "matrix" -> 20 [] view = "network" -> 20
    [] view = "parallel" -> 10 [] view = "clock" -> 15
Baseline(view, s) ==
  IF Matches(ActiveOrAll(state), s) THEN FullOpacity(view) ELSE DimmedOpacity(view)

\* C8: in every view, once the conference filter has been set to F and the
\* subscribers have run, every school element, the featured school's
\* included, is at the view's full opacity if F is "all" or its conference,
\* and at the view's dimmed opacity otherwise.
C8_FilterSetsEveryOpacity ==
  lastEvent.type = "filter" =>
    \A view \in AllViews, s \in SchoolNames : ElementOpacity(view, s) = Baseline(view, s)

\* C9: in every view, after the pointer has left an element bound to a
\* school, the hovered school is null, the tooltip is hidden and every
\* element of that view is at its filter baseline, whatever filter is active.
C9_LeaveRestoresBaseline ==
  lastEvent.type = "mouseleave" =>
    /\ state.hoveredSchool = Null
    /\ ~tooltip.isVisible
    /\ \A s \in SchoolNames : ElementOpacity(lastEvent.view, s) = Baseline(lastEvent.view, s)

\* C10: a click on an element bound to school S leaves S selected when its
\* handlers have run, and no deselect continuation ever stems from a click
\* on a school element, so nothing that click started clears the selection.
C10_ClickSelects ==
  /\ (lastEvent.type = "click" /\ lastEvent.school # Null
        => /\ state.selectedSchool = lastEvent.school
           /\ views.card.selectedSchool = lastEvent.school)
  /\ \A i \in 1..Len(pendingDeselect) : pendingDeselect[i].school = Null
  /\ (lastEvent.type = "continuation" => lastEvent.school = Null)
\* a school of a chart outside every .glass-panel was clicked while another
\* school was selected before, and is now the selected one
C10_Witness ==
  /\ lastEvent.type = "click"
  /\ lastEvent.view \in D3Views
  /\ lastEvent.school = "Alabama"
  /\ ~dom.chartsInGlassPanel
  /\ state.selectedSchool = "Alabama"
  /\ views.galaxy.selectedMarker = "Purdue"
  /\ pendingDeselect = <<>>

\* C11: a click outside every chart surface and the tooltip while a school
\* is selected clears the selection before any later user event is handled
\* (the step after such a click is its deselect continuation), and a click
\* inside a chart surface or the tooltip, not on a school element, leaves
\* the selection as it is.
C11_OutsideClickDeselectsAtOnce ==
  [][/\ (pendingDeselect # <<>> =>
           /\ pendingDeselect' = Tail(pendingDeselect)
           /\ state'.selectedSchool = Null)
     /\ (lastEvent'.type = "click" /\ lastEvent'.school = Null
           /\ pendingDeselect' = pendingDeselect
           => state'.selectedSchool = state.selectedSchool)]_vars

(***************************************************************************)
(* Part III (SpecSort): the trope matrix and its sort order.               *)
(*                                                                         *)
(* A data set is a sequence of school records; a school is named by its    *)
(* position in the data set.  Strings that the code only compares with     *)
(* localeCompare (school and conference names) are their collation ranks.  *)
(* A column's place is the index its transform transition ends at.         *)
(***************************************************************************)
MaxSchools == 3   \* schools in a data set

SortOrders == {"conference", "trope_count", "year", "bpm"}
\* the founding year of a record whose year is null
NoYear == 0
\* a record without the property year (school.year is undefined)
AbsentYear == 0 - 1
SchoolRecords ==
  [conference : {1, 2}, bpm : {70, 150}, trope_count : {0, 4}, year : {NoYear, 1900, 1950}]
\* the name of the school at position i collates after the names of the
\* schools that follow it in the data set
NameRank(data, i) == Len(data) + 1 - i
DataSets == UNION {[1..n -> SchoolRecords] : n \in 1..MaxSchools}

\* the comparators of utils.js sortSchools, on positions a and b of data
compareAscending(data, sortBy, a, b) ==
  IF sortBy = "bpm" THEN data[a].bpm - data[b].bpm ELSE 0
compare(data, sortBy, a, b) ==
  CASE sortBy = "conference" ->
         IF data[a].conference # data[b].conference
         THEN data[a].conference - data[b].conference
         ELSE NameRank(data, a) - NameRank(data, b)
    [] sortBy = "trope_count" -> data[b].trope_count - data[a].trope_count
    [] sortBy = "year" ->
         IF data[a].year = NoYear THEN 1
         ELSE IF data[b].year = NoYear THEN 0 - 1
         ELSE IF data[a].year = AbsentYear \/ data[b].year = AbsentYear
              THEN 0      \* undefined - n is NaN, which sort takes as +0
         ELSE data[a].year - data[b].year
    [] sortBy = "bpm" -> data[b].bpm - data[a].bpm
    [] OTHER -> 0

\* Array.prototype.sort is stable: x goes behind every element it does not
\* have to precede
RECURSIVE InsertSorted(_, _, _, _)
InsertSorted(data, sortBy, sorted, x) ==
  IF sorted = <<>> THEN <<x>>
  ELSE LET lastOne == sorted[Len(sorted)]
       IN  IF compare(data, sortBy, lastOne, x) > 0
           THEN Append(InsertSorted(data, sortBy, SubSeq(sorted, 1, Len(sorted) - 1), x),
                       lastOne)
           ELSE Append(sorted, x)
RECURSIVE SortPrefix(_, _, _)
SortPrefix(data, sortBy, n) ==
  IF n = 0 THEN <<>>
  ELSE InsertSorted(data, sortBy, SortPrefix(data, sortBy, n - 1), n)
\* utils.js sortSchools: a sorted copy, as the sequence of positions
sortSchools(data, sortBy) == SortPrefix(data, sortBy, Len(data))

\* the data join keyed by school name: the column of school k is moved to
\* the index of k in sortedSchools
ColumnPlaces(sortedSchools) ==
  [k \in Range(sortedSchools) |-> CHOOSE i \in 1..Len(sortedSchools) : sortedSchools[i] = k]

\* TropeMatrix constructor and drawCells
NewMatrix(data) ==
  [schools |-> data,
   sortedSchools |-> sortSchools(data, "conference"),
   currentSort |-> "conference",
   place |-> ColumnPlaces(sortSchools(data, "conference"))]
\* TropeMatrix.resort
resort(mx, sortBy) ==
  [mx EXCEPT !.currentSort = sortBy,
             !.sortedSchools = sortSchools(mx.schools, sortBy),
             !.place = ColumnPlaces(sortSchools(mx.schools, sortBy))]
\* the matrixSort subscriber
TropeMatrix_onMatrixSort(mx, sortBy) ==
  IF sortBy # mx.currentSort THEN resort(mx, sortBy) ELSE mx

InitSort ==
  /\ state = InitialState
  /\ listeners = [k \in {"matrixSort"} |-> <<"matrix">>]
  /\ stack = <<>>
  /\ handles = << >>
  /\ dead = {}
  /\ call = NoCall
  /\ log = <<>>
  /\ last = NoInvocation
  /\ uncaught = FALSE
  /\ \E data \in DataSets : views = [matrix |-> NewMatrix(data)]
  /\ tooltip = [isVisible |-> FALSE, currentSchool |-> Null]
  /\ pointer = NoPointer
  /\ pendingDeselect = <<>>
  /\ dom = Null
  /\ lastEvent = Event("load", Null, Null)

\* change of the matrix-sort <select>: setMatrixSort, then the subscriber
ChangeMatrixSort(sortBy) ==
  /\ state.matrixSort # sortBy
  /\ state' = [state EXCEPT !.matrixSort = sortBy]
  /\ views' = [views EXCEPT !.matrix = TropeMatrix_onMatrixSort(@, sortBy)]
  /\ lastEvent' = Event("sort", Null, Null)
  /\ UNCHANGED <<tooltip, pointer, pendingDeselect>>
  /\ AppFrame

NextSort == \E sortBy \in SortOrders : ChangeMatrixSort(sortBy)

SpecSort == InitSort /\ [][NextSort]_vars

\* the schools in the order of their columns, left to right
ColumnSequence ==
  LET mx == views.matrix
  IN  [i \in 1..Len(mx.schools) |-> CHOOSE k \in DOMAIN mx.place : mx.place[k] = i]

MaxNodes == 3   \* schools in a data set

NetworkRecords ==
  [conference : {"Big Ten", "SEC"}, bpm : {60, 160},
   sec_duration : {40, 100}, trope_count : {0, 10}]
NetworkDataSets == UNION {[1..n -> NetworkRecords] : n \in 1..MaxNodes}

\* NetworkGraph.prepareData: the double loop over i < j, from pair (i, j) on
RECURSIVE LinksFrom(_, _, _)
LinksFrom(data, i, j) ==
  IF i > Len(data) THEN <<>>
  ELSE IF j > Len(data) THEN LinksFrom(data, i + 1, i + 2)
  ELSE LET similarity == calculateSimilarity(data[i], data[j])
       IN  (IF similarity > similarityThreshold
            THEN <<[source |-> i, target |-> j, similarity |-> similarity]>>
            ELSE <<>>) \o LinksFrom(data, i, j + 1)
prepareDataWithSelf(data) == LinksFrom(data, 1, 1)
prepareData(data) == LinksFrom(data, 1, 2)

\* main.js loadData has returned; no NetworkGraph yet
InitNetwork ==
  /\ state = InitialState
  /\ listeners = << >>
  /\ stack = <<>>
  /\ handles = << >>
  /\ dead = {}
  /\ call = NoCall
  /\ log = <<>>
  /\ last = NoInvocation
  /\ uncaught = FALSE
  /\ \E data \in NetworkDataSets :
       views = [network |-> [schools |-> data, links |-> <<>>, drawn |-> FALSE]]
  /\ tooltip = [isVisible |-> FALSE, currentSchool |-> Null]
  /\ pointer = NoPointer
  /\ pendingDeselect = <<>>
  /\ dom = Null
  /\ lastEvent = Event("load", Null, Null)

\* new NetworkGraph(...): init, prepareData, draw, subscriptions
NewNetworkGraph ==
  /\ ~views.network.drawn
  /\ views' = [views EXCEPT !.network.links = prepareData(views.network.schools),
                            !.network.drawn = TRUE]
  /\ listeners' = [k \in {"activeConference", "hoveredSchool"} |-> <<"network">>]
  /\ lastEvent' = Event("new", "network", Null)
  /\ UNCHANGED <<state, tooltip, pointer, pendingDeselect>>
  /\ UNCHANGED <<stack, handles, dead, call, log, last, uncaught, dom>>

NextNetwork == NewNetworkGraph

SpecNetwork == InitNetwork /\ [][NextNetwork]_vars

\* the scores of all pairs of records
PairScores == {calculateSimilarity(r1, r2) : r1, r2 \in NetworkRecords}

\* C13: for every school record, the similarity score of the record with
\* an identical record is the largest score any pair of records can have,
\* and it is above the 0.7 edge threshold.
C13_IdenticalIsMaximal ==
  \A i \in DOMAIN views.network.schools :
    LET r == views.network.schools[i]
    IN  /\ \A score \in PairScores : calculateSimilarity(r, r) >= score
        /\ calculateSimilarity(r, r) > similarityThreshold
\* a data set that holds the same record twice has been compared: the two
\* are linked with the score 1 / 0.7
C13_Witness ==
  /\ views.network.drawn
  /\ Len(views.network.schools) >= 2
  /\ views.network.schools[1] = views.network.schools[2]
  /\ \E n \in DOMAIN views.network.links :
       views.network.links[n] = [source |-> 1, target |-> 2, similarity |-> 3000]

\* links of the drawn graph that join schools i and j, in either direction
LinksBetween(i, j) ==
  {n \in DOMAIN views.network.links :
     {views.network.links[n].source, views.network.links[n].target} = {i, j}}

\* C14: the graph has an edge between two distinct schools exactly when
\* their score is above 0.7, one edge at most per unordered pair and none
\* from a school to itself; so same-conference schools with equal tempo,
\* duration and trope count are linked, and a school of another conference
\* whose three differences reach 100 bpm, 60 s and 10 tropes is not.
C14_EdgeIffAboveThreshold ==
  views.network.drawn =>
    LET data == views.network.schools
        Abs(x) == IF x < 0 THEN 0 - x ELSE x
    IN  /\ \A i, j \in DOMAIN data :
             /\ i = j => LinksBetween(i, j) = {}
             /\ i # j =>
                  /\ Cardinality(LinksBetween(i, j)) <= 1
                  /\ LinksBetween(i, j) # {}
                       <=> calculateSimilarity(data[i], data[j]) > similarityThreshold
                  /\ (/\ data[i].conference = data[j].conference
                      /\ data[i].bpm = data[j].bpm
                      /\ data[i].sec_duration = data[j].sec_duration
                      /\ data[i].trope_count = data[j].trope_count)
                       => LinksBetween(i, j) # {}
                  /\ (/\ data[i].conference # data[j].conference
                      /\ Abs(data[i].bpm - data[j].bpm) >= 100
                      /\ Abs(data[i].sec_duration - data[j].sec_duration) >= 60
                      /\ Abs(data[i].trope_count - data[j].trope_count) >= 10)
                       => LinksBetween(i, j) = {}
\* two identical Big Ten schools and an SEC school at the clipping bounds:
\* exactly the edge between the first two
C14_Witness ==
  /\ views.network.drawn
  /\ views.network.schools =
       <<[conference |-> "Big Ten", bpm |-> 160, sec_duration |-> 40, trope_count |-> 10],
         [conference |-> "SEC", bpm |-> 60, sec_duration |-> 100, trope_count |-> 0],
         [conference |-> "Big Ten", bpm |-> 160, sec_duration |-> 40, trope_count |-> 10]>>
  /\ Len(views.network.links) = 1
  /\ views.network.links[1].source = 1
  /\ views.network.links[1].target = 3

(***************************************************************************)
(* Part V (SpecClock): the sector radii of the rose chart.  A data set is  *)
(* the sequence of its schools' conferences.  A radius is a fraction       *)
(* num / den of the maximum radius in percent, or NaN.                     *)
(***************************************************************************)
MaxClockSchools == 6   \* schools in a data set

ClockDataSets == UNION {[1..n -> conferences] : n \in 0..MaxClockSchools}

Number(num, den) == [nan |-> FALSE, num |-> num, den |-> den]
NaN == [nan |-> TRUE, num |-> 0, den |-> 1]

\* utils.js mapRange with outMin = 50 and outMax = 100 (percent); the
\* value lies between inMin and inMax, so the quotient is 0 / 0 when they
\* are equal
mapRange(value, inMin, inMax, outMin, outMax) ==
  IF inMax = inMin THEN NaN
  ELSE Number(outMin * (inMax - inMin) + (value - inMin) * (outMax - outMin),
              inMax - inMin)

\* this.schools.filter(s => s.conference === conf).length
schoolCount(data, conf) == Cardinality({i \in DOMAIN data : data[i] = conf})
\* d3.extent(counts)
countExtent(data) ==
  LET counts == {schoolCount(data, conf) : conf \in conferences}
  IN  <<CHOOSE lo \in counts : \A c \in counts : lo <= c,
        CHOOSE hi \in counts : \A c \in counts : hi >= c>>
\* minOuterRadius 0.5, in percent
minOuterRadius == 50
\* FightSongClock.calculateConferenceStats: outerRadius / maxRadius
calculateConferenceStats(data) ==
  [conf \in conferences |->
     IF schoolCount(data, conf) > 0
     THEN [schoolCount |-> schoolCount(data, conf),
           outerRadius |-> mapRange(schoolCount(data, conf), countExtent(data)[1],
                                    countExtent(data)[2], minOuterRadius, 100)]
     ELSE [schoolCount |-> 0, outerRadius |-> Number(minOuterRadius, 1)]]

\* main.js loadData has returned; no FightSongClock yet
InitClock ==
  /\ state = InitialState
  /\ listeners = << >>
  /\ stack = <<>>
  /\ handles = << >>
  /\ dead = {}
  /\ call = NoCall
  /\ log = <<>>
  /\ last = NoInvocation
  /\ uncaught = FALSE
  /\ \E data \in ClockDataSets :
       views = [clock |-> [schools |-> data, conferenceStats |-> << >>, drawn |-> FALSE]]
  /\ tooltip = [isVisible |-> FALSE, currentSchool |-> Null]
  /\ pointer = NoPointer
  /\ pendingDeselect = <<>>
  /\ dom = Null
  /\ lastEvent = Event("load", Null, Null)

\* new FightSongClock(...): init, calculateConferenceStats, draw, subscriptions
NewFightSongClock ==
  /\ ~views.clock.drawn
  /\ views' = [views EXCEPT
                 !.clock.conferenceStats = calculateConferenceStats(views.clock.schools),
                 !.clock.drawn = TRUE]
  /\ listeners' = [k \in {"activeConference", "hoveredSchool"} |-> <<"clock">>]
  /\ lastEvent' = Event("new", "clock", Null)
  /\ UNCHANGED <<state, tooltip, pointer, pendingDeselect>>
  /\ UNCHANGED <<stack, handles, dead, call, log, last, uncaught, dom>>

NextClock == NewFightSongClock

SpecClock == InitClock /\ [][NextClock]_vars

\* C15: for every data set and each of the six sectors, the outer radius is
\* a number between 50% and 100% of the maximum radius, linear in the
\* conference's school count, the smallest count at 50% and the largest at
\* 100%; also when all six conferences have equally many schools.
C15_SectorRadiusIsDefined ==
  views.clock.drawn =>
    LET data == views.clock.schools
        lo   == countExtent(data)[1]
        hi   == countExtent(data)[2]
    IN  \A conf \in conferences :
          LET r == views.clock.conferenceStats[conf].outerRadius
              n == schoolCount(data, conf)
          IN  /\ ~r.nan
              /\ 50 * r.den <= r.num
              /\ r.num <= 100 * r.den
              /\ lo < hi => r.num * (hi - lo) = (50 * (hi - lo) + 50 * (n - lo)) * r.den

(***************************************************************************)
(* Part VI (SpecBrush): the brushes of the parallel-coordinates view.  A   *)
(* line is the school's position on each of the five axes, as path() and   *)
(* filterLines() compute it with the same scale; positions and brush       *)
(* bounds are pixel levels along the axis.                                 *)
(***************************************************************************)
\* ParallelCoordinates.dimensions
dimensions == {"bpm", "sec_duration", "year", "fight", "victory"}
AxisLevels == {0, 2}                      \* positions a line can have on an axis
BrushSelections == {<<0, 1>>, <<1, 2>>}   \* event.selection of a brush
NoBrush == <<>>                           \* no entry in this.brushes
LineNames == {"Purdue", "Ohio State"}

\* this.scales[dimKey](value) for the line of school d
yPos(lines, d, dimKey) == lines[d][dimKey]

\* ParallelCoordinates.filterLines: the opacity each line is moved to
filterLines(px) ==
  LET activeFilters == {dimKey \in dimensions : px.brushes[dimKey] # NoBrush}
      isVisible(d)  == \A dimKey \in activeFilters :
                         /\ yPos(px.lines, d, dimKey) >= px.brushes[dimKey][1]
                         /\ yPos(px.lines, d, dimKey) <= px.brushes[dimKey][2]
  IN  [px EXCEPT !.opacity = [d \in LineNames |->
                                IF isPurdue(d) THEN 80
                                ELSE IF isVisible(d) THEN 30 ELSE 5]]

\* the view as drawn, without a brush
InitBrush ==
  /\ state = InitialState
  /\ listeners = [k \in {"activeConference", "hoveredSchool"} |-> <<"parallel">>]
  /\ stack = <<>>
  /\ handles = << >>
  /\ dead = {}
  /\ call = NoCall
  /\ log = <<>>
  /\ last = NoInvocation
  /\ uncaught = FALSE
  /\ \E lines \in [LineNames -> [dimensions -> AxisLevels]] :
       views = [parallel |->
                  [lines |-> lines,
                   brushes |-> [dimKey \in dimensions |-> NoBrush],
                   opacity |-> [d \in LineNames |-> IF isPurdue(d) THEN 80 ELSE 30]]]
  /\ tooltip = [isVisible |-> FALSE, currentSchool |-> Null]
  /\ pointer = NoPointer
  /\ pendingDeselect = <<>>
  /\ dom = Null
  /\ lastEvent = Event("load", Null, Null)

\* 'brush end' with a selection on the axis
BrushSet(dimKey, selection) ==
  /\ views' = [views EXCEPT
                 !.parallel = filterLines([@ EXCEPT !.brushes[dimKey] = selection])]
  /\ lastEvent' = Event("brush", "parallel", Null)
  /\ UNCHANGED <<state, tooltip, pointer, pendingDeselect>>
  /\ AppFrame

\* 'brush end' without a selection on the axis
BrushClear(dimKey) ==
  /\ views' = [views EXCEPT
                 !.parallel = filterLines([@ EXCEPT !.brushes[dimKey] = NoBrush])]
  /\ lastEvent' = Event("brush", "parallel", Null)
  /\ UNCHANGED <<state, tooltip, pointer, pendingDeselect>>
  /\ AppFrame

NextBrush ==
  \/ \E dimKey \in dimensions, selection \in BrushSelections : BrushSet(dimKey, selection)
  \/ \E dimKey \in dimensions : BrushClear(dimKey)

SpecBrush == InitBrush /\ [][NextBrush]_vars

\* C16: after any sequence of brush set and brush clear events, a school's
\* line, the featured school's too, is shown undimmed exactly when its
\* position lies inside the brushed interval of every axis that has a brush.
C16_BrushesIntersect ==
  \A d \in LineNames :
    views.parallel.opacity[d] > 5
      <=> \A dimKey \in dimensions :
            views.parallel.brushes[dimKey] # NoBrush =>
              /\ yPos(views.parallel.lines, d, dimKey) >= views.parallel.brushes[dimKey][1]
              /\ yPos(views.parallel.lines, d, dimKey) <= views.parallel.brushes[dimKey][2]

(***************************************************************************)
(* Part VII (SpecRadius): marker radii of the map, scatter and hero-map    *)
(* views, in tenths of a pixel.  A data set gives each school its trope    *)
(* count.                                                                  *)
(***************************************************************************)
\* the number of trope flags (TropeMatrix.tropes), the largest trope count
tropeFlags == 9
MarkerNames == {"Purdue", "Ohio State", "Alabama"}
RadiusViews == {"map", "scatter", "galaxy"}

\* config.baseRadius, config.radiusMultiplier, config.purdueRadius, times 10
baseRadius(view) ==
  CASE view = "map" -> 50 [] view = "scatter" -> 40 [] view = "galaxy" -> 60
radiusMultiplier(view) ==
  CASE view = "map" -> 15 [] view = "scatter" -> 10 [] view = "galaxy" -> 12
purdueRadius(view) ==
  CASE view = "map" -> 120 [] view = "scatter" -> 100 [] view = "galaxy" -> 290

\* USAMap.getRadius, ScatterPlot.getRadius, the size of EnergyGalaxy.createMarkers
getRadius(view, name, trope_count) ==
  IF isPurdue(name) THEN purdueRadius(view)
  ELSE baseRadius(view) + trope_count * radiusMultiplier(view)

\* main.js loadData has returned; no marker drawn yet
InitRadius ==
  /\ state = InitialState
  /\ listeners = << >>
  /\ stack = <<>>
  /\ handles = << >>
  /\ dead = {}
  /\ call = NoCall
  /\ log = <<>>
  /\ last = NoInvocation
  /\ uncaught = FALSE
  /\ \E counts \in [MarkerNames -> 0..tropeFlags] :
       views = [trope_count |-> counts,
                drawn |-> {},
                r |-> [view \in RadiusViews |-> [name \in MarkerNames |-> 0]]]
  /\ tooltip = [isVisible |-> FALSE, currentSchool |-> Null]
  /\ pointer = NoPointer
  /\ pendingDeselect = <<>>
  /\ dom = Null
  /\ lastEvent = Event("load", Null, Null)

\* USAMap.drawSchools, ScatterPlot.drawPoints, EnergyGalaxy.createMarkers
DrawMarkers(view) ==
  /\ view \notin views.drawn
  /\ views' = [views EXCEPT
                 !.drawn = @ \cup {view},
                 !.r[view] = [name \in MarkerNames |->
                                getRadius(view, name, views.trope_count[name])]]
  /\ lastEvent' = Event("new", view, Null)
  /\ UNCHANGED <<state, tooltip, pointer, pendingDeselect>>
  /\ AppFrame

NextRadius == \E view \in RadiusViews : DrawMarkers(view)

SpecRadius == InitRadius /\ [][NextRadius]_vars

\* C17: in the map, scatter and hero-map views, for every data set with
\* trope counts from 0 to 9, the featured school's marker radius is
\* strictly greater than the radius of every other school's marker, which
\* is the view's base plus trope count times the view's increment.
C17_FeaturedIsLargest ==
  \A view \in views.drawn, name \in MarkerNames \ {"Purdue"} :
    /\ views.r[view][name]
         = baseRadius(view) + views.trope_count[name] * radiusMultiplier(view)
    /\ views.r[view]["Purdue"] > views.r[view][name]

(***************************************************************************)
(* Part VIII (SpecLoad): application start-up.  dom holds the page: the    *)
(* loader element, the application object (window.__APP__) and the         *)
(* requests in flight.  The continuation of init after the data set has    *)
(* arrived runs in microtasks only, so no event interleaves with it.       *)
(***************************************************************************)
MaxReloads == 1    \* clicks on the retry button per behaviour

\* what fetch('./data/schools.json') settles with
Statuses == {200, 404, 500}
Responses ==
  {[settled |-> "rejected", status |-> 0, body |-> Null]}
    \cup [settled : {"fulfilled"}, status : Statuses, body : {"json", "invalid"}]

NoResponse == [settled |-> "pending", status |-> 0, body |-> Null]

\* Response.ok
ok(response) == response.status >= 200 /\ response.status <= 299

\* loadJSON without the test of response.ok
loadJSONUnchecked(response) ==
  IF response.settled = "rejected" THEN "throws"
  ELSE IF response.body = "invalid" THEN "throws"
  ELSE "returns"

\* utils.js loadJSON: whether the promise is rejected or fulfilled
loadJSON(response) ==
  IF response.settled = "rejected" THEN "throws"
  ELSE IF ~ok(response) THEN "throws"
  ELSE IF response.body = "invalid" THEN "throws"
  ELSE "returns"

ModuleNames == {"galaxy", "map", "radar", "scatter", "matrix", "network",
                "parallel", "clock", "posterGalaxy"}
AtlasViews == {"map", "galaxy"}

\* the page as the browser hands it over, after so many reloads
NewPage(glass, reloads) ==
  [chartsInGlassPanel |-> glass,
   pc |-> "ready",
   loader |-> "initial",
   isLoaded |-> FALSE,
   modules |-> {},
   controls |-> FALSE,
   requests |-> 0,
   response |-> NoResponse,
   atlas |-> [v \in AtlasViews |-> "none"],
   markers |-> {},
   background |-> {},
   unhandled |-> {},
   reloads |-> reloads]

InitLoad ==
  /\ state = InitialState
  /\ listeners = << >>
  /\ stack = <<>>
  /\ handles = << >>
  /\ dead = {}
  /\ call = NoCall
  /\ log = <<>>
  /\ last = NoInvocation
  /\ uncaught = FALSE
  /\ views = InitialViews
  /\ tooltip = [isVisible |-> FALSE, currentSchool |-> Null]
  /\ pointer = NoPointer
  /\ pendingDeselect = <<>>
  /\ \E glass \in BOOLEAN : dom = NewPage(glass, 0)
  /\ lastEvent = Event("load", Null, Null)

LoadFrame == UNCHANGED <<stack, handles, dead, call, log, last, uncaught>>

\* DOMContentLoaded: new FightSongViz(), init() up to its first await
DOMContentLoaded ==
  /\ dom.pc = "ready"
  /\ dom' = [dom EXCEPT !.pc = "loadData", !.loader = "flex", !.requests = @ + 1]
  /\ lastEvent' = Event("DOMContentLoaded", Null, Null)
  /\ UNCHANGED <<state, listeners, views, tooltip, pointer, pendingDeselect>>
  /\ LoadFrame

\* FightSongViz.showError
showError(page) == [page EXCEPT !.loader = "error"]

\* the request of the data set settles and loadJSON throws: the catch of init
InitFails(response) ==
  /\ dom.pc = "loadData"
  /\ loadJSON(response) = "throws"
  /\ dom' = showError([dom EXCEPT !.pc = "failed", !.response = response])
  /\ lastEvent' = Event("response", Null, Null)
  /\ UNCHANGED <<state, listeners, views, tooltip, pointer, pendingDeselect>>
  /\ LoadFrame

\* the request settles and loadJSON returns: the rest of init, through
\* initializeState, initModules, setupControls and hideLoading
InitCompletes(response) ==
  /\ dom.pc = "loadData"
  /\ loadJSON(response) = "returns"
  /\ state' = InitialState
  /\ listeners' = AppListeners
  /\ views' = InitialViews
  /\ dom' = [dom EXCEPT !.pc = "done", !.response = response,
                        !.modules = ModuleNames,
                        !.atlas = [v \in AtlasViews |-> "pending"],
                        !.controls = TRUE,
                        !.loader = "hidden",
                        !.isLoaded = TRUE]
  /\ lastEvent' = Event("response", Null, Null)
  /\ UNCHANGED <<tooltip, pointer, pendingDeselect>>
  /\ LoadFrame

\* click on the retry button of the error state: location.reload()
Retry ==
  /\ dom.loader = "error"
  /\ dom.reloads < MaxReloads
  /\ state' = InitialState
  /\ listeners' = << >>
  /\ views' = InitialViews
  /\ tooltip' = [isVisible |-> FALSE, currentSchool |-> Null]
  /\ pointer' = NoPointer
  /\ pendingDeselect' = <<>>
  /\ dom' = NewPage(dom.chartsInGlassPanel, dom.reloads + 1)
  /\ lastEvent' = Event("load", Null, Null)
  /\ LoadFrame

\* what d3.json(states-10m.json) settles with
AtlasOutcomes == {"json", "rejected"}

\* USAMap.loadAndDrawMap without its try/catch
loadAndDrawMapUncaught(outcome) ==
  IF outcome = "json" THEN [background |-> TRUE, threw |-> FALSE]
  ELSE [background |-> FALSE, threw |-> TRUE]

\* USAMap.loadAndDrawMap: the states are drawn, or the error is logged
loadAndDrawMap(outcome) ==
  IF outcome = "json" THEN [background |-> TRUE, threw |-> FALSE]
  ELSE [background |-> FALSE, threw |-> FALSE]

\* EnergyGalaxy.loadMap: markers are created and the loop started either way
loadMap(outcome) ==
  IF outcome = "json" THEN [background |-> TRUE, markers |-> TRUE, threw |-> FALSE]
  ELSE [background |-> FALSE, markers |-> TRUE, threw |-> FALSE]

\* USAMap.drawSchools: the school groups are created, at their own opacity
drawSchools(vs) ==
  [vs EXCEPT !.map.opacity = [s \in SchoolNames |-> 100], !.map.tr = <<>>]

\* the atlas request of the map settles: the rest of USAMap.init
MapAtlasSettles(outcome) ==
  /\ dom.pc = "done"
  /\ dom.atlas["map"] = "pending"
  /\ pointer = NoPointer
  /\ LET r == loadAndDrawMap(outcome)
     IN  /\ dom' = [dom EXCEPT
                      !.atlas["map"] = IF outcome = "json" THEN "ok" ELSE "failed",
                      !.background = IF r.background THEN @ \cup {"map"} ELSE @,
                      !.markers = IF r.threw THEN @ ELSE @ \cup {"map"},
                      !.unhandled = IF r.threw THEN @ \cup {"map"} ELSE @]
         /\ views' = IF r.threw THEN views ELSE drawSchools(views)
  /\ lastEvent' = Event("atlas", "map", Null)
  /\ UNCHANGED <<state, listeners, tooltip, pointer, pendingDeselect>>
  /\ LoadFrame

\* the atlas request of the hero map settles: the rest of EnergyGalaxy.loadMap
GalaxyAtlasSettles(outcome) ==
  /\ dom.pc = "done"
  /\ dom.atlas["galaxy"] = "pending"
  /\ LET r == loadMap(outcome)
     IN  dom' = [dom EXCEPT
                   !.atlas["galaxy"] = IF outcome = "json" THEN "ok" ELSE "failed",
                   !.background = IF r.background THEN @ \cup {"galaxy"} ELSE @,
                   !.markers = IF r.markers THEN @ \cup {"galaxy"} ELSE @,
                   !.unhandled = IF r.threw THEN @ \cup {"galaxy"} ELSE @]
  /\ lastEvent' = Event("atlas", "galaxy", Null)
  /\ UNCHANGED <<state, listeners, views, tooltip, pointer, pendingDeselect>>
  /\ LoadFrame

\* the events of the loaded page on the map, the hero map and the filter
LoadedPageEvent ==
  /\ dom.pc = "done"
  /\ \/ \E school \in SchoolNames :
          /\ "map" \in dom.markers
          /\ \/ MouseEnter("map", school)
             \/ MouseLeave("map", school)
             \/ Click("map", school)
     \/ \E found \in SchoolNames \cup {Null} :
          /\ found # Null => "galaxy" \in dom.markers
          /\ GalaxyMouseMove(found)
     \/ GalaxyMouseLeave
     \/ \E school \in SchoolNames :
          /\ "galaxy" \in dom.markers
          /\ Click("galaxy", school)
     \/ \E value \in FilterValues : ChangeConferenceFilter(value)
     \/ DeselectContinuation

NextLoad ==
  \/ DOMContentLoaded
  \/ \E response \in Responses : InitFails(response)
  \/ \E response \in Responses : InitCompletes(response)
  \/ Retry
  \/ \E outcome \in AtlasOutcomes : MapAtlasSettles(outcome)
  \/ \E outcome \in AtlasOutcomes : GalaxyAtlasSettles(outcome)
  \/ LoadedPageEvent

SpecLoad == InitLoad /\ [][NextLoad]_vars

FailedResponses == {r \in Responses : r.settled = "rejected" \/ ~ok(r)}

\* C18: when the request of the data set is rejected or answered with a
\* non-OK status, initialization is aborted: no view is constructed, no
\* store subscription and no control is wired, the loaded flag stays
\* false, the loader shows the error state with its retry button, and the
\* data set has been requested once only.
C18_FailedLoadAborts ==
  dom.response \in FailedResponses =>
    /\ dom.modules = {}
    /\ listeners = << >>
    /\ ~dom.controls
    /\ ~dom.isLoaded
    /\ dom.loader = "error"
    /\ dom.requests = 1
    /\ dom.atlas = [v \in AtlasViews |-> "none"]

C18_Witness ==
  /\ dom.response \in FailedResponses
  /\ dom.response.settled = "fulfilled"
  /\ dom.reloads = 1
  /\ dom.loader = "error"

\* C19: when the atlas request of the map or of the hero map fails, the
\* failure stays inside the view: the view has no background but has its
\* school markers, no promise is left rejected, the page is loaded and not
\* in the error state, and the view goes on answering hover, click and
\* filter changes.
C19_AtlasFailureIsContained ==
  \A v \in AtlasViews :
    dom.atlas[v] = "failed" =>
      /\ v \in dom.markers
      /\ v \notin dom.background
      /\ v \notin dom.unhandled
      /\ dom.isLoaded /\ dom.loader = "hidden"
      /\ (lastEvent.view = v /\ lastEvent.type = "mouseenter"
            => /\ state.hoveredSchool = lastEvent.school
               /\ views[v][IF v = "map" THEN "hoveredSchool" ELSE "hoveredMarker"]
                    = lastEvent.school
               /\ tooltip.isVisible /\ tooltip.currentSchool = lastEvent.school)
      /\ (lastEvent.view = v /\ lastEvent.type = "click"
            => state.selectedSchool = lastEvent.school)
      /\ (lastEvent.type = "filter"
            => IF v = "map"
               THEN \A s \in SchoolNames : ElementOpacity(v, s) = Baseline(v, s)
               ELSE views.galaxy.activeConference = state.activeConference)

C19_Witness ==
  /\ \A v \in AtlasViews : dom.atlas[v] = "failed"
  /\ lastEvent.type = "filter"
  /\ state.activeConference = "SEC"
  /\ state.selectedSchool = "Alabama"
  /\ views.galaxy.selectedMarker = "Ohio State"

(***************************************************************************)
(* Part IX (SpecPoster): the animation loop of PosterGalaxy.  views holds  *)
(* the object's fields, the frame callbacks the browser has pending and    *)
(* the entries of the last observer callback; requestAnimationFrame hands  *)
(* out the ids 1, 2, 3, ...                                                *)
(***************************************************************************)
MaxFrames == 6     \* requestAnimationFrame calls per behaviour
MaxEntries == 2    \* entries of one IntersectionObserver callback

\* this.animationId = null; the ids of requestAnimationFrame are not zero
NoFrame == 0

NewPosterGalaxy ==
  [isVisible |-> FALSE, animationId |-> NoFrame, time |-> 0,
   frames |-> {}, nextId |-> 1, destroyed |-> FALSE,
   entries |-> <<>>]

\* PosterGalaxy.animate
animate(p) ==
  IF ~p.isVisible THEN [p EXCEPT !.animationId = NoFrame]
  ELSE [p EXCEPT !.time = @ + 16,
                 !.animationId = p.nextId,
                 !.frames = @ \cup {p.nextId},
                 !.nextId = @ + 1]

\* the observer's entry handler without the test of animationId
onEntryRestarting(p, isIntersecting) ==
  LET q == [p EXCEPT !.isVisible = isIntersecting]
  IN  IF q.isVisible THEN animate(q) ELSE q

\* the body of entries.forEach in setupVisibilityObserver
onEntry(p, isIntersecting) ==
  LET q == [p EXCEPT !.isVisible = isIntersecting]
  IN  IF q.isVisible /\ q.animationId = NoFrame THEN animate(q) ELSE q

RECURSIVE observerCallback(_, _)
observerCallback(p, entries) ==
  IF entries = <<>> THEN p
  ELSE observerCallback(onEntry(p, Head(entries)), Tail(entries))

EntryLists == UNION {[1..n -> BOOLEAN] : n \in 1..MaxEntries}

InitPoster ==
  /\ state = InitialState
  /\ listeners = << >>
  /\ stack = <<>>
  /\ handles = << >>
  /\ dead = {}
  /\ call = NoCall
  /\ log = <<>>
  /\ last = NoInvocation
  /\ uncaught = FALSE
  /\ views = NewPosterGalaxy
  /\ tooltip = Null
  /\ pointer = NoPointer
  /\ pendingDeselect = <<>>
  /\ dom = Null
  /\ lastEvent = Event("new", "posterGalaxy", Null)

PosterFrame ==
  UNCHANGED <<state, listeners, stack, handles, dead, call, log, last, uncaught,
              tooltip, pointer, pendingDeselect, dom>>

\* the IntersectionObserver reports: its callback runs over the entries
Intersection(entries) ==
  /\ views.nextId + Len(entries) <= MaxFrames + 1
  /\ views' = observerCallback([views EXCEPT !.entries = entries], entries)
  /\ lastEvent' = Event("intersection", "posterGalaxy", Null)
  /\ PosterFrame

\* the browser runs a pending frame callback: () => this.animate()
FrameCallback(id) ==
  /\ id \in views.frames
  /\ views.nextId <= MaxFrames
  /\ views' = animate([views EXCEPT !.frames = @ \ {id}])
  /\ lastEvent' = Event("frame", "posterGalaxy", Null)
  /\ PosterFrame

\* PosterGalaxy.destroy: the observer is left connected
Destroy ==
  /\ ~views.destroyed
  /\ views' = [views EXCEPT
                 !.frames = IF views.animationId # NoFrame
                            THEN @ \ {views.animationId} ELSE @,
                 !.destroyed = TRUE]
  /\ lastEvent' = Event("destroy", "posterGalaxy", Null)
  /\ PosterFrame

NextPoster ==
  \/ \E entries \in EntryLists : Intersection(entries)
  \/ \E id \in 1..MaxFrames : FrameCallback(id)
  \/ Destroy

SpecPoster == InitPoster /\ [][NextPoster]_vars

\* C20: while the poster view is not torn down, under any visibility
\* reports and frame callbacks: a frame callback that runs after the view
\* was reported out of the viewport draws nothing and schedules nothing;
\* the stopped loop stays stopped while no report says visible; a report
\* that ends with the view visible leaves a loop running; and never more
\* than one frame callback is pending.
C20_LoopFollowsVisibility ==
  [][~views'.destroyed =>
       /\ (lastEvent'.type = "frame" /\ ~views.isVisible
             => /\ views'.time = views.time
                /\ views'.frames = {}
                /\ views'.animationId = NoFrame)
       /\ ((/\ views.frames = {}
             /\ (lastEvent'.type = "intersection"
                   => (\A i \in 1..Len(views'.entries) : ~views'.entries[i])))
             => views'.frames = {} /\ views'.time = views.time)
       /\ (lastEvent'.type = "intersection" /\ views'.isVisible
             => Cardinality(views'.frames) = 1)
       /\ Cardinality(views'.frames) <= 1]_vars

\* the loop was stopped by a frame callback and a later report restarted it
C20_Witness ==
  /\ ~views.destroyed
  /\ views.isVisible
  /\ lastEvent.type = "intersection"
  /\ views.animationId = 4
  /\ views.frames = {4}
  /\ views.time = 64

(***************************************************************************)
(* Part X (SpecTooltip): the position of the tooltip.  Lengths are CSS     *)
(* pixels; the pointer moves on a grid of 5 pixels inside the viewport.    *)
(* dom holds window.innerWidth and innerHeight, tooltip the rectangle of   *)
(* the element, pointer the clientX and clientY of the last event.         *)
(***************************************************************************)
MaxCells == 10     \* grid cells across the larger viewport

\* const padding = 15
padding == 15
ViewportSizes == {5 * (MaxCells - 3), 5 * MaxCells}
TooltipSizes == {10, 20, 40}
Grid(size) == {5 * i : i \in 0..(size \div 5)}

\* the left (top) of Tooltip.move without the clamp at the left (top) edge
placeUnclamped(p, size, viewport) ==
  IF p + padding + size > viewport - padding
  THEN p - size - padding
  ELSE p + padding

\* the left (top) Tooltip.move computes for a pointer at p
place(p, size, viewport) ==
  LET near == p + padding
      flipped == IF near + size > viewport - padding
                 THEN p - size - padding
                 ELSE near
  IN  IF flipped < padding THEN padding ELSE flipped

InitTooltip ==
  /\ state = InitialState
  /\ listeners = << >>
  /\ stack = <<>>
  /\ handles = << >>
  /\ dead = {}
  /\ call = NoCall
  /\ log = <<>>
  /\ last = NoInvocation
  /\ uncaught = FALSE
  /\ views = Null
  /\ \E w \in TooltipSizes, h \in TooltipSizes :
       tooltip = [width |-> w, height |-> h, left |-> 0, top |-> 0, moved |-> FALSE]
  /\ pointer = <<0, 0>>
  /\ pendingDeselect = <<>>
  /\ dom \in [innerWidth : ViewportSizes, innerHeight : ViewportSizes]
  /\ lastEvent = Event("load", Null, Null)

\* Tooltip.move(event.clientX, event.clientY)
Tooltip_move(x, y) ==
  /\ tooltip' = [tooltip EXCEPT
                   !.left = place(x, tooltip.width, dom.innerWidth),
                   !.top = place(y, tooltip.height, dom.innerHeight),
                   !.moved = TRUE]
  /\ pointer' = <<x, y>>
  /\ lastEvent' = Event("mousemove", Null, Null)
  /\ UNCHANGED <<state, listeners, stack, handles, dead, call, log, last, uncaught,
                 views, pendingDeselect, dom>>

NextTooltip ==
  \E x \in Grid(dom.innerWidth), y \in Grid(dom.innerHeight) : Tooltip_move(x, y)

SpecTooltip == InitTooltip /\ [][NextTooltip]_vars

\* C21: after move(x, y) with the pointer inside the viewport, left and top
\* are at least the padding, and when the tooltip's width and height plus
\* twice the padding fit in the viewport, the tooltip's rectangle lies in
\* the viewport inset by the padding on every side.
C21_TooltipStaysInViewport ==
  tooltip.moved =>
    /\ tooltip.left >= padding
    /\ tooltip.top >= padding
    /\ ((/\ tooltip.width + 2 * padding <= dom.innerWidth
          /\ tooltip.height + 2 * padding <= dom.innerHeight)
          => (/\ tooltip.left + tooltip.width <= dom.innerWidth - padding
              /\ tooltip.top + tooltip.height <= dom.innerHeight - padding))

\* the tooltip fits, was flipped to the left of the pointer and then clamped
C21_Witness ==
  /\ tooltip.moved
  /\ tooltip.width + 2 * padding <= dom.innerWidth
  /\ tooltip.height + 2 * padding <= dom.innerHeight
  /\ pointer[1] + padding + tooltip.width > dom.innerWidth - padding
  /\ pointer[1] - tooltip.width - padding < padding
  /\ tooltip.left = padding
  /\ pointer[2] + padding + tooltip.height <= dom.innerHeight - padding

(***************************************************************************)
(* Part XI (SpecYearSort): sortSchools by founding year, on data sets whose *)
(* records differ in the year only: a year, null, or no year at all.       *)
(***************************************************************************)
MaxYearSchools == 4

YearRecords ==
  [conference : {1}, bpm : {70}, trope_count : {0},
   year : {NoYear, AbsentYear, 1900, 1950}]
YearDataSets == UNION {[1..n -> YearRecords] : n \in 1..MaxYearSchools}

InitYearSort ==
  /\ state = InitialState
  /\ listeners = [k \in {"matrixSort"} |-> <<"matrix">>]
  /\ stack = <<>>
  /\ handles = << >>
  /\ dead = {}
  /\ call = NoCall
  /\ log = <<>>
  /\ last = NoInvocation
  /\ uncaught = FALSE
  /\ \E data \in YearDataSets : views = [matrix |-> NewMatrix(data)]
  /\ tooltip = [isVisible |-> FALSE, currentSchool |-> Null]
  /\ pointer = NoPointer
  /\ pendingDeselect = <<>>
  /\ dom = Null
  /\ lastEvent = Event("load", Null, Null)

NextYearSort == \E sortBy \in SortOrders : ChangeMatrixSort(sortBy)

SpecYearSort == InitYearSort /\ [][NextYearSort]_vars

\* the founding year of a school is known
KnownYear(school) == school.year # NoYear /\ school.year # AbsentYear

\* C22: sortSchools(schools, 'year') returns a permutation of the input in
\* which every school with a known year comes before every school whose
\* year is unknown, null or absent, and the known years do not decrease.
C22_UnknownYearsLast ==
  state.matrixSort = "year" =>
    LET mx == views.matrix
        sorted == mx.sortedSchools
        n == Len(mx.schools)
    IN  /\ Len(sorted) = n
        /\ Range(sorted) = 1..n
        /\ \A i, j \in 1..n :
             i < j =>
               /\ KnownYear(mx.schools[sorted[j]]) => KnownYear(mx.schools[sorted[i]])
               /\ (KnownYear(mx.schools[sorted[i]]) /\ KnownYear(mx.schools[sorted[j]])
                     => mx.schools[sorted[i]].year <= mx.schools[sorted[j]].year)

(***************************************************************************)
(* Part XII (SpecCascade): what the application's subscriber callbacks     *)
(* call.  The methods of the views are named as in the sources; a callback *)
(* reaches a store mutator if a method it calls, directly or through other *)
(* methods, calls one.  log lists the keys of the notification rounds of   *)
(* the last mutator call made by the page.                                 *)
(***************************************************************************)
MaxRounds == 3     \* notification rounds followed inside one mutator call

\* (variant: the hover callback of the map goes through the leave handler)
CallbackMethodsLeaving(name, key, value) ==
  IF name = "map" /\ key = "hoveredSchool" /\ value # Null
  THEN {"externalHighlight", "handleMouseLeave"}
  ELSE {}

\* the methods the callback of view name for key calls when it gets value
CallbackMethods(name, key, value) ==
  CASE key = "activeConference" /\ name = "galaxy" -> {}
    [] key = "activeConference" /\ name = "radar" ->
         IF value = "all" THEN {"unhighlightRadar"} ELSE {"highlightRadar"}
    [] key = "activeConference" -> {"filterByConference"}
    [] key = "hoveredSchool" /\ name \in {"map", "scatter", "matrix"} ->
         IF value # Null THEN {"externalHighlight"} ELSE {"externalUnhighlight"}
    [] key = "hoveredSchool" /\ name = "network" ->
         IF value # Null THEN {"highlightNode"} ELSE {}
    [] key = "hoveredSchool" /\ name = "parallel" ->
         IF value # Null THEN {"highlightLine"} ELSE {}
    [] key = "hoveredSchool" /\ name = "clock" ->
         IF value # Null THEN {"highlightArc"} ELSE {}
    [] key = "hoveredSchool" /\ name = "card" -> {"populateSchoolCard"}
    [] key = "hoveredSchool" /\ name = "galaxy" -> {}
    [] key = "selectedSchool" /\ name = "card" -> {"populateSchoolCard"}
    [] key = "selectedSchool" /\ name = "map" -> {}
    [] key = "matrixSort" /\ name = "matrix" -> {"resort"}
    [] OTHER -> {}

\* the methods a method of a view calls on its view
MethodCalls(method) ==
  CASE method = "externalUnhighlight" -> {"filterByConference", "getRadius"}
    [] method \in {"externalHighlight", "highlightSchool", "unhighlightSchool",
                   "highlightPoint", "unhighlightPoint"} -> {"getRadius"}
    [] method = "handleMouseEnter" -> {"highlightSchool"}
    [] method = "handleMouseLeave" -> {"unhighlightSchool"}
    [] OTHER -> {}

\* the store mutator calls in the body of a method, as <<key, value>>
MethodMutators(method, value) ==
  CASE method = "handleMouseEnter" -> {<<"hoveredSchool", value>>}
    [] method = "handleMouseLeave" -> {<<"hoveredSchool", Null>>}
    [] method = "handleClick" -> {<<"selectedSchool", value>>}
    [] OTHER -> {}

RECURSIVE Reaches(_, _)
Reaches(methods, n) ==
  IF n = 0 THEN methods
  ELSE Reaches(methods \cup UNION {MethodCalls(m) : m \in methods}, n - 1)

\* the mutator calls a subscriber callback makes
SubscriberCalls(name, key, value) ==
  UNION {MethodMutators(m, value) : m \in Reaches(CallbackMethods(name, key, value), 3)}

CascadeListeners ==
  [k \in Keys |-> IF k \in DOMAIN AppListeners THEN AppListeners[k] ELSE <<"matrix">>]

\* the effect of a callback on the views; TropeMatrix.resort moves columns
\* only (Part III)
CascadeSubscriber(name, key, vs, st, value) ==
  IF key \in DOMAIN AppListeners THEN Subscriber(name, key, vs, st, value) ELSE vs

RECURSIVE Dispatch(_, _, _, _)
RECURSIVE RunSubscribers(_, _, _, _, _)
RECURSIVE RunCalls(_, _, _)

\* setState(key, value) with the application's callbacks
Dispatch(w, key, value, fuel) ==
  IF w.state[key] = value THEN w
  ELSE IF fuel = 0 THEN [w EXCEPT !.overflow = TRUE]
  ELSE RunSubscribers([w EXCEPT !.state[key] = value, !.log = Append(@, key)],
                      key, value, CascadeListeners[key], fuel)

\* notify(key, value): the callbacks in subscription order
RunSubscribers(w, key, value, subs, fuel) ==
  IF subs = <<>> THEN w
  ELSE LET w1 == [w EXCEPT !.views = CascadeSubscriber(Head(subs), key, @, w.state, value)]
           w2 == RunCalls(w1, SubscriberCalls(Head(subs), key, value), fuel - 1)
       IN  RunSubscribers(w2, key, value, Tail(subs), fuel)

RunCalls(w, calls, fuel) ==
  IF calls = {} THEN w
  ELSE LET c == CHOOSE x \in calls : TRUE
       IN  RunCalls(Dispatch(w, c[1], c[2], fuel), calls \ {c}, fuel)

MutatorValues(key) ==
  CASE key = "hoveredSchool" -> SchoolNames \cup {Null}
    [] key = "selectedSchool" -> SchoolNames \cup {Null}
    [] key = "activeConference" -> FilterValues
    [] key = "matrixSort" -> SortOrders

InitCascade ==
  /\ state = InitialState
  /\ listeners = CascadeListeners
  /\ stack = <<>>
  /\ handles = << >>
  /\ dead = {}
  /\ call = NoCall
  /\ log = <<>>
  /\ last = NoInvocation
  /\ uncaught = FALSE
  /\ views = InitialViews
  /\ tooltip = [isVisible |-> FALSE, currentSchool |-> Null]
  /\ pointer = NoPointer
  /\ pendingDeselect = <<>>
  /\ dom = Null
  /\ lastEvent = Event("load", Null, Null)

\* hoverSchool, selectSchool, setConferenceFilter or setMatrixSort called by
\* an event handler of the page
CallMutator(key, value) ==
  LET w == Dispatch([state |-> state, views |-> views, log |-> <<>>, overflow |-> FALSE],
                    key, value, MaxRounds)
  IN  /\ state' = w.state
      /\ views' = Settle(w.views)
      /\ log' = w.log
      /\ uncaught' = w.overflow
      /\ call' = [NoCall EXCEPT !.op = "setState", !.key = key, !.value = value,
                                !.old = state]
      /\ lastEvent' = Event("mutator", Null, Null)
      /\ UNCHANGED <<listeners, stack, handles, dead, last, tooltip, pointer,
                     pendingDeselect, dom>>

NextCascade == \E key \in Keys : \E value \in MutatorValues(key) : CallMutator(key, value)

SpecCascade == InitCascade /\ [][NextCascade]_vars

\* the callbacks, with the value passed, that call a store mutator
CallbacksCallingMutators ==
  {c \in UNION {{<<name, key, value>> : name \in Range(CascadeListeners[key]),
                                       value \in MutatorValues(key)} : key \in Keys} :
     SubscriberCalls(c[1], c[2], c[3]) # {}}

\* C23: no subscriber callback of the application calls a store mutator,
\* so a mutator call makes at most one notification round, for its own
\* key, and returns: none when the value is the stored one, one otherwise.
C23_OneRoundPerMutatorCall ==
  /\ CallbacksCallingMutators = {}
  /\ call.op = "setState" =>
       /\ ~uncaught
       /\ Len(log) <= 1
       /\ log = (IF call.old[call.key] = call.value THEN <<>> ELSE <<call.key>>)

\* a hover on a school while another one was hovered and a filter is active:
\* one round, of the key hoveredSchool
C23_Witness ==
  /\ call.op = "setState"
  /\ call.key = "hoveredSchool"
  /\ call.value = "Alabama"
  /\ call.old.hoveredSchool = "Purdue"
  /\ state.activeConference = "SEC"
  /\ state.matrixSort = "bpm"
  /\ log = <<"hoveredSchool">>

(***************************************************************************)
(* Cross-view hover (SpecApp)                                               *)
(***************************************************************************)
\* the elements of view have the opacities its own filterByConference gives
\* them for the active conference
FilterConsistent(view) ==
  views[view].opacity =
    Settle(Subscriber(view, "activeConference", views, state,
                      ActiveOrAll(state)))[view].opacity

\* C24: when the pointer has left a school that was hovered in one view, so
\* that the shared hovered school is null again, every other view is back
\* at the opacities of the active filter and none is left highlighted for
\* the school.
C24_CrossViewHoverIsUndone ==
  lastEvent.type = "mouseleave" =>
    /\ state.hoveredSchool = Null
    /\ views.galaxy.hoveredMarker = Null
    /\ \A view \in D3Views \ {lastEvent.view} : FilterConsistent(view)

(***************************************************************************)
(* Part XIII (SpecResize): the resize observers of the views.  dom holds   *)
(* the size of the containers and, for each view, how many observers its   *)
(* container has and how many of them have a size to report.  An observer  *)
(* reports once after observe() and once after every change of size; the   *)
(* containers are laid out, so their size is never zero.                   *)
(***************************************************************************)
MaxObservers == 3    \* observers on one container

ContainerSizes == {400, 800}
\* the views whose observer reprojects in place, and those whose observer
\* empties the container and calls init()
ReprojectingViews == {"map", "network"}
ReinitViews == {"scatter", "parallel", "clock"}
ResizeViews == ReprojectingViews \cup ReinitViews

\* new ResizeObserver(...).observe(this.container)
setupResize(observers) == [n |-> observers.n + 1, pending |-> observers.pending + 1]

\* init() of a view: its elements are drawn anew, then setupResize()
init(page, vs, view) ==
  [dom |-> [page EXCEPT !.observers[view] = setupResize(@)],
   views |-> [vs EXCEPT ![view].opacity = InitialViews[view].opacity,
                        ![view].tr = <<>>]]

\* the callback of a view's resize observer
resizeCallback(page, vs, view) ==
  IF view \in ReinitViews THEN init(page, vs, view)
  ELSE [dom |-> page, views |-> vs]

InitResize ==
  /\ state = InitialState
  /\ listeners = AppListeners
  /\ stack = <<>>
  /\ handles = << >>
  /\ dead = {}
  /\ call = NoCall
  /\ log = <<>>
  /\ last = NoInvocation
  /\ uncaught = FALSE
  /\ views = InitialViews
  /\ tooltip = [isVisible |-> FALSE, currentSchool |-> Null]
  /\ pointer = NoPointer
  /\ pendingDeselect = <<>>
  /\ \E size \in ContainerSizes :
       dom = [chartsInGlassPanel |-> TRUE,
              size |-> size,
              observers |-> [v \in ResizeViews |-> [n |-> 1, pending |-> 1]]]
  /\ lastEvent = Event("load", Null, Null)

\* the viewport is resized: every observer has a new size to report
Resize(size) ==
  /\ size # dom.size
  /\ dom' = [dom EXCEPT !.size = size,
                        !.observers = [v \in ResizeViews |->
                                         [n |-> dom.observers[v].n,
                                          pending |-> dom.observers[v].n]]]
  /\ lastEvent' = Event("resize", Null, Null)
  /\ UNCHANGED <<state, listeners, views, tooltip, pointer, pendingDeselect>>
  /\ LoadFrame

\* the browser delivers the size to one observer of view
ObserverReports(view) ==
  /\ dom.observers[view].pending > 0
  /\ view \in ReinitViews => dom.observers[view].n < MaxObservers
  /\ LET r == resizeCallback([dom EXCEPT !.observers[view].pending = @ - 1], views, view)
     IN  dom' = r.dom /\ views' = r.views
  /\ lastEvent' = Event("observer", view, Null)
  /\ UNCHANGED <<state, listeners, tooltip, pointer, pendingDeselect>>
  /\ LoadFrame

NextResize ==
  \/ \E size \in ContainerSizes : Resize(size)
  \/ \E view \in ResizeViews : ObserverReports(view)
  \/ \E value \in FilterValues : ChangeConferenceFilter(value)

SpecResize == InitResize /\ [][NextResize]_vars

\* C25: after a view has handled a resize, by reprojecting or by
\* initializing itself again, each of its elements still has the opacity
\* the active conference filter gives it.
C25_ResizeKeepsFilter ==
  [][\A view \in ResizeViews :
       (/\ lastEvent'.type = "observer"
        /\ lastEvent'.view = view
        /\ FilterConsistent(view))
         => FilterConsistent(view)']_vars

\* C26: a view's container has at most one resize observer at any time, and
\* the handling of a report leaves no observer of the view with a report to
\* make: one resize, one initialization.
C26_OneObserverPerView ==
  /\ \A view \in ResizeViews : dom.observers[view].n <= 1
  /\ lastEvent.type = "observer" => dom.observers[lastEvent.view].pending = 0

(***************************************************************************)
(* Filter changes before the map has its markers (SpecLoad)                *)
(***************************************************************************)
\* C27: a conference filter change notified while the atlas request of the
\* map is pending is not lost: when the request has settled and the markers
\* are drawn, their opacities are those of the active conference filter.
C27_FilterSurvivesPendingFetch ==
  (lastEvent.type = "atlas" /\ lastEvent.view = "map" /\ "map" \in dom.markers)
    => \A s \in SchoolNames : ElementOpacity("map", s) = Baseline("map", s)

(***************************************************************************)
(* Part XIV (SpecLabels): the conference labels under the matrix.  dom     *)
(* holds the text elements of class conf-label, in document order, and the *)
(* number of label-redraw timers of resort that have not fired yet.        *)
(***************************************************************************)
MaxLabelSchools == 3
MaxTimers == 2       \* pending setTimeout callbacks of resort

LabelRecords == [conference : {1, 2}, bpm : {70, 150}, trope_count : {0}, year : {1900}]
LabelDataSets == UNION {[1..n -> LabelRecords] : n \in 1..MaxLabelSchools}

\* confStarts: the indexes at which the conference differs from the one
\* before, in the order of sortedSchools
confStarts(mx) ==
  {i \in 1..Len(mx.sortedSchools) :
     \/ i = 1
     \/ mx.schools[mx.sortedSchools[i]].conference
          # mx.schools[mx.sortedSchools[i - 1]].conference}

\* the labels drawColumnLabels and the timer of resort append: one for each
\* start, from left to right, with its conference
RECURSIVE LabelsFrom(_, _)
LabelsFrom(mx, starts) ==
  IF starts = {} THEN <<>>
  ELSE LET i == CHOOSE x \in starts : \A y \in starts : x <= y
       IN  <<[conference |-> mx.schools[mx.sortedSchools[i]].conference, index |-> i]>>
             \o LabelsFrom(mx, starts \ {i})
drawColumnLabels(mx) == LabelsFrom(mx, confStarts(mx))

InitLabels ==
  /\ state = InitialState
  /\ listeners = [k \in {"matrixSort"} |-> <<"matrix">>]
  /\ stack = <<>>
  /\ handles = << >>
  /\ dead = {}
  /\ call = NoCall
  /\ log = <<>>
  /\ last = NoInvocation
  /\ uncaught = FALSE
  /\ \E data \in LabelDataSets :
       /\ views = [matrix |-> NewMatrix(data)]
       /\ dom = [labels |-> drawColumnLabels(NewMatrix(data)), timers |-> 0]
  /\ tooltip = [isVisible |-> FALSE, currentSchool |-> Null]
  /\ pointer = NoPointer
  /\ pendingDeselect = <<>>
  /\ lastEvent = Event("load", Null, Null)

\* change of the matrix-sort <select>: resort moves the columns, removes
\* the labels and sets the timer that draws them again
SortAndRelabel(sortBy) ==
  /\ state.matrixSort # sortBy
  /\ dom.timers < MaxTimers
  /\ state' = [state EXCEPT !.matrixSort = sortBy]
  /\ views' = [views EXCEPT !.matrix = TropeMatrix_onMatrixSort(@, sortBy)]
  /\ dom' = IF sortBy # views.matrix.currentSort
            THEN [labels |-> <<>>, timers |-> dom.timers + 1]
            ELSE dom
  /\ lastEvent' = Event("sort", Null, Null)
  /\ UNCHANGED <<tooltip, pointer, pendingDeselect>>
  /\ LoadFrame /\ UNCHANGED listeners

\* a timer of resort fires: the labels of the order shown now are appended
LabelTimerFires ==
  /\ dom.timers > 0
  /\ dom' = [labels |-> dom.labels \o drawColumnLabels(views.matrix),
             timers |-> dom.timers - 1]
  /\ lastEvent' = Event("timer", Null, Null)
  /\ UNCHANGED <<state, listeners, views, tooltip, pointer, pendingDeselect>>
  /\ LoadFrame

NextLabels ==
  \/ \E sortBy \in SortOrders : SortAndRelabel(sortBy)
  \/ LabelTimerFires

SpecLabels == InitLabels /\ [][NextLabels]_vars

\* C28: once every label timer has fired, whatever sort changes were made
\* and however close together, the matrix shows one conference label for
\* each run of neighbouring columns of one conference in the order shown,
\* none twice and none of an earlier order.
C28_OneLabelPerRun ==
  dom.timers = 0 => dom.labels = drawColumnLabels(views.matrix)

(***************************************************************************)
(* Part XV (SpecParallel): the brushes and the conference filter of the    *)
(* parallel-coordinates view together, with no school hovered.  Both write *)
(* the opacity attribute of every path.line.                               *)
(***************************************************************************)
BrushedAxes == {"bpm", "year"}     \* the axes on which the lines differ

\* ParallelCoordinates.filterByConference on the view of Part VI
filterByConference(px, conference) ==
  [px EXCEPT !.opacity = [d \in LineNames |->
                            IF isPurdue(d) THEN 80
                            ELSE IF Matches(conference, d) THEN 30 ELSE 10]]

InitParallel ==
  /\ state = InitialState
  /\ listeners = [k \in {"activeConference", "hoveredSchool"} |-> <<"parallel">>]
  /\ stack = <<>>
  /\ handles = << >>
  /\ dead = {}
  /\ call = NoCall
  /\ log = <<>>
  /\ last = NoInvocation
  /\ uncaught = FALSE
  /\ \E lines \in [LineNames -> [dimensions -> AxisLevels]] :
       /\ \A d \in LineNames, dimKey \in dimensions \ BrushedAxes : lines[d][dimKey] = 0
       /\ views = [parallel |->
                     [lines |-> lines,
                      brushes |-> [dimKey \in dimensions |-> NoBrush],
                      opacity |-> [d \in LineNames |-> IF isPurdue(d) THEN 80 ELSE 30]]]
  /\ tooltip = [isVisible |-> FALSE, currentSchool |-> Null]
  /\ pointer = NoPointer
  /\ pendingDeselect = <<>>
  /\ dom = Null
  /\ lastEvent = Event("load", Null, Null)

\* change of the conference <select>: setState, then the view's subscriber
FilterLinesByConference(value) ==
  /\ value # state.activeConference
  /\ state' = [state EXCEPT !.activeConference = value]
  /\ views' = [views EXCEPT !.parallel = filterByConference(@, value)]
  /\ lastEvent' = Event("filter", Null, Null)
  /\ UNCHANGED <<tooltip, pointer, pendingDeselect>>
  /\ AppFrame

NextParallel ==
  \/ \E dimKey \in dimensions, selection \in BrushSelections : BrushSet(dimKey, selection)
  \/ \E dimKey \in dimensions : BrushClear(dimKey)
  \/ \E value \in FilterValues : FilterLinesByConference(value)

SpecParallel == InitParallel /\ [][NextParallel]_vars

\* the line of d lies outside the brushed interval of some axis
ExcludedByBrush(px, d) ==
  \E dimKey \in dimensions :
    /\ px.brushes[dimKey] # NoBrush
    /\ \/ yPos(px.lines, d, dimKey) < px.brushes[dimKey][1]
       \/ yPos(px.lines, d, dimKey) > px.brushes[dimKey][2]

\* C29: with no school hovered, the opacity of every line is decided by the
\* brushes and the conference filter in force, whatever the order in which
\* they were applied (applying the filter last and applying the brushes last
\* give the opacities shown), and a line that a brush or the filter excludes
\* is dimmed.
C29_OpacityOfBrushesAndFilter ==
  /\ views.parallel.opacity
       = filterByConference(views.parallel, ActiveOrAll(state)).opacity
  /\ views.parallel.opacity = filterLines(views.parallel).opacity
  /\ \A d \in LineNames :
       (ExcludedByBrush(views.parallel, d) \/ ~Matches(ActiveOrAll(state), d))
         => views.parallel.opacity[d] <= 10

\* C30 (SpecApp): after any sequence of hover and select calls, the school
\* card shows the hovered school if there is one, else the selected school if
\* there is one, else the default school.
C30_CardShowsHoveredElseSelected ==
  views.card.currentDisplayedSchool
    = IF state.hoveredSchool # Null THEN state.hoveredSchool
      ELSE IF state.selectedSchool # Null THEN state.selectedSchool
      ELSE defaultSchool

====
